---- MODULE Spec2Model ----
(***************************************************************************)
(* Model of the spaced-repetition scheduling engine of ai-phrase:          *)
(*   - AnkiSM2Strategy  (algorithms/anki-sm2-strategy.ts)                  *)
(*   - LeitnerStrategy  (algorithms/leitner-strategy, unnamed/part_013)    *)
(*   - SpacedRepetitionStrategy base class (spaced-repetition-strategy.ts) *)
(*                                                                         *)
(* Numbers.  ease_factor, ease_bonus and the multipliers are JavaScript    *)
(* doubles with two decimals; the model keeps them as integer hundredths   *)
(* (2.5 is 250, 0.15 is 15, 1.3 is 130).  Intervals and repetitions are    *)
(* integers.  Timestamps are integer minutes.  A JavaScript `undefined`    *)
(* number (an array read past its end) is the value Undefined, and a Date  *)
(* built from it is InvalidDate.  CardData.last_review is left out: no      *)
(* strategy reads or writes it.                                            *)
(***************************************************************************)
EXTENDS Integers, Sequences, FiniteSets, TLC

VARIABLES
    algorithm,    \* name of the strategy under study: "anki-sm2" or "leitner"
    config,       \* this.config of the strategy instance
    card,         \* the CardData the caller holds
    response,     \* UserResponse passed to the last calculateNextReview
    currentTime,  \* currentTime passed to the last calculateNextReview
    result,       \* CardUpdateResult returned by the last calculateNextReview
    pc,           \* "idle" | "returned" | "thrown"
    reviewLog,    \* tally of the responses given to the item since Init
    \* LearningSession (learning-session.ts)
    sessionConfig,     \* this.config: LearningSessionConfig
    sessionQueue,      \* this.sessionQueue
    completedCards,    \* this.completedCards: the response history
    stats,             \* this.stats
    currentCardIndex,  \* this.currentCardIndex: the cursor
    lastOp,            \* the last session operation and what it returned
    snapshot,          \* the session state before the last processResponse,
                       \* kept while the only calls since are one undoLastReview
    initialQueue,      \* the queue as initializeSession built it
    undoCount,         \* number of undoLastReview calls that returned true
    \* AlgorithmFactory (algorithm-factory.ts)
    algorithms,        \* this.algorithms: the registry, by AlgorithmType
    \* QueueManager (queue-manager.ts)
    dailyQueue         \* the DailyQueue the caller holds

strategyVars ==
    <<algorithm, config, card, response, currentTime, result, pc, reviewLog>>

sessionVars ==
    <<sessionConfig, sessionQueue, completedCards, stats, currentCardIndex,
      lastOp, snapshot, initialQueue, undoCount>>

factoryVars == <<algorithms>>

queueVars == <<dailyQueue>>

vars == <<strategyVars, sessionVars, factoryVars, queueVars>>

----------------------------------------------------------------------------
(* Bounds of the exploration *)

MaxInterval == 15
MaxRepetitions == 3

----------------------------------------------------------------------------
(* Representation *)

Undefined == -1
InvalidDate == -1
MinutesPerDay == 1440
EaseScale == 100

UserResponse == {"again", "hard", "good", "easy"}
CardStatus == {"new", "learning", "review", "suspended"}

Min(a, b) == IF a <= b THEN a ELSE b
Max(a, b) == IF a >= b THEN a ELSE b

\* Math.round(n / d) for n >= 0, d > 0: floor(n/d + 1/2)
Round(n, d) == (2 * n + d) \div (2 * d)

\* { ...a, ...b }: keys of b override keys of a
Spread(a, b) ==
    [k \in (DOMAIN a) \cup (DOMAIN b) |-> IF k \in DOMAIN b THEN b[k] ELSE a[k]]

EmptyData == [k \in {} |-> 0]

\* array[i] with a 0-based index; reading outside the array gives undefined
At(array, i) == IF i >= 0 /\ i < Len(array) THEN array[i + 1] ELSE Undefined

\* array.findIndex(step => step === x): first 0-based match, or -1
FindIndex(array, x) ==
    IF \E i \in 1..Len(array) : array[i] = x
    THEN (CHOOSE i \in 1..Len(array) :
              array[i] = x /\ \A j \in 1..(i - 1) : array[j] # x) - 1
    ELSE -1

addMinutes(date, minutes) ==
    IF minutes = Undefined THEN InvalidDate ELSE date + minutes

addDays(date, days) ==
    IF days = Undefined THEN InvalidDate ELSE date + days * MinutesPerDay

----------------------------------------------------------------------------
(* SM-2 configuration *)

DEFAULT_ANKI_CONFIG ==
    [ learning_steps |->
        [ initial |-> <<1, 10>>,
          relearning |-> <<10>>,
          graduating_interval |-> 1,
          easy_interval |-> 4 ],
      max_ease_factor |-> 250,
      min_ease_factor |-> 130,
      ease_bonus |-> 15,
      hard_multiplier |-> 120,
      new_interval_multiplier |-> 100 ]

\* { ...DEFAULT_ANKI_CONFIG, ...config } for the custom configuration of
\* customAlgorithmConfigExample
CustomAnkiConfig ==
    [ DEFAULT_ANKI_CONFIG EXCEPT
        !.learning_steps =
            [ initial |-> <<5, 15, 30>>,
              relearning |-> <<20>>,
              graduating_interval |-> 2,
              easy_interval |-> 7 ],
        !.max_ease_factor = 300,
        !.ease_bonus = 20 ]

AnkiConfigs == {DEFAULT_ANKI_CONFIG, CustomAnkiConfig}

----------------------------------------------------------------------------
(* SpacedRepetitionStrategy.validateCard *)

\* a variant that does not look at the due date
validateCardNoDueDate(c) ==
    /\ c.id # ""
    /\ c.status # ""
    /\ c.ease_factor # Undefined
    /\ c.interval # Undefined
    /\ c.repetitions # Undefined

validateCard(c) ==
    /\ c.id # ""
    /\ c.status # ""
    /\ c.ease_factor # Undefined
    /\ c.interval # Undefined
    /\ c.repetitions # Undefined
    /\ c.due_date # InvalidDate

----------------------------------------------------------------------------
(* AnkiSM2Strategy *)

AnkiAlgorithmName == "anki-sm2"
AnkiVersion == "2.1.0"

\* the result object built at the top of calculateNextReview
AnkiInitialResult(c, r, t) ==
    [ status |-> c.status,
      ease_factor |-> c.ease_factor,
      interval |-> c.interval,
      repetitions |-> c.repetitions,
      due_date |-> t,
      graduated_today |-> FALSE,
      algorithm_data |->
          Spread([ algorithm_name |-> AnkiAlgorithmName,
                   algorithm_version |-> AnkiVersion,
                   last_response |-> r,
                   response_time |-> t ],
                 c.algorithm_data) ]

handleNewCardLearn(cfg, res, t) ==
    [ res EXCEPT
        !.status = "learning",
        !.interval = cfg.learning_steps.initial[1],
        !.due_date = addMinutes(t, cfg.learning_steps.initial[1]) ]

\* variant: the 'easy' branch forgets to set repetitions
handleNewCardEasyKeepsRepetitions(cfg, res, t) ==
    [ res EXCEPT
        !.status = "review",
        !.interval = cfg.learning_steps.easy_interval,
        !.ease_factor = Min(res.ease_factor + cfg.ease_bonus, cfg.max_ease_factor),
        !.due_date = addDays(t, cfg.learning_steps.easy_interval),
        !.graduated_today = TRUE ]

handleNewCardEasy(cfg, res, t) ==
    [ res EXCEPT
        !.status = "review",
        !.interval = cfg.learning_steps.easy_interval,
        !.ease_factor = Min(res.ease_factor + cfg.ease_bonus, cfg.max_ease_factor),
        !.repetitions = 1,
        !.due_date = addDays(t, cfg.learning_steps.easy_interval),
        !.graduated_today = TRUE ]

handleNewCard(cfg, res, r, t) ==
    CASE r = "again" -> handleNewCardLearn(cfg, res, t)
      [] r = "hard"  -> handleNewCardLearn(cfg, res, t)
      [] r = "good"  -> handleNewCardLearn(cfg, res, t)
      [] r = "easy"  -> handleNewCardEasy(cfg, res, t)

\* variant: the relearning steps are searched before the initial steps
getCurrentLearningStepIndexRelearningFirst(cfg, currentInterval) ==
    FindIndex(cfg.learning_steps.relearning \o cfg.learning_steps.initial,
              currentInterval)

getCurrentLearningStepIndex(cfg, currentInterval) ==
    FindIndex(cfg.learning_steps.initial \o cfg.learning_steps.relearning,
              currentInterval)

isRelearning(c) == c.repetitions > 0

LearningSteps(cfg, c) ==
    IF isRelearning(c) THEN cfg.learning_steps.relearning
                       ELSE cfg.learning_steps.initial

handleLearningCardAgain(cfg, c, res, t) ==
    LET steps == LearningSteps(cfg, c) IN
    [ res EXCEPT
        !.interval = At(steps, 0),
        !.due_date = addMinutes(t, At(steps, 0)),
        !.ease_factor = IF isRelearning(c)
                        THEN Max(cfg.min_ease_factor, c.ease_factor - 20)
                        ELSE res.ease_factor ]

handleLearningCardHard(cfg, c, res, t) ==
    LET steps == LearningSteps(cfg, c)
        currentStepIndex == getCurrentLearningStepIndex(cfg, c.interval)
        hardStepIndex == Max(0, currentStepIndex)
    IN  [ res EXCEPT
            !.interval = At(steps, hardStepIndex),
            !.due_date = addMinutes(t, At(steps, hardStepIndex)) ]

handleLearningCardGood(cfg, c, res, t) ==
    LET steps == LearningSteps(cfg, c)
        currentStepIndex == getCurrentLearningStepIndex(cfg, c.interval)
        nextStepIndex == currentStepIndex + 1
    IN  IF nextStepIndex < Len(steps)
        THEN [ res EXCEPT
                 !.interval = At(steps, nextStepIndex),
                 !.due_date = addMinutes(t, At(steps, nextStepIndex)) ]
        ELSE [ res EXCEPT
                 !.status = "review",
                 !.interval = cfg.learning_steps.graduating_interval,
                 !.repetitions = IF isRelearning(c) THEN c.repetitions ELSE 1,
                 !.due_date = addDays(t, cfg.learning_steps.graduating_interval),
                 !.graduated_today = TRUE ]

handleLearningCardEasy(cfg, c, res, t) ==
    [ res EXCEPT
        !.status = "review",
        !.interval = cfg.learning_steps.easy_interval,
        !.ease_factor = Min(res.ease_factor + cfg.ease_bonus, cfg.max_ease_factor),
        !.repetitions = IF isRelearning(c) THEN c.repetitions ELSE 1,
        !.due_date = addDays(t, cfg.learning_steps.easy_interval),
        !.graduated_today = TRUE ]

handleLearningCard(cfg, c, res, r, t) ==
    CASE r = "again" -> handleLearningCardAgain(cfg, c, res, t)
      [] r = "hard"  -> handleLearningCardHard(cfg, c, res, t)
      [] r = "good"  -> handleLearningCardGood(cfg, c, res, t)
      [] r = "easy"  -> handleLearningCardEasy(cfg, c, res, t)

\* variant: a lapse resets repetitions, as in textbook SM-2
handleReviewCardAgainResetsRepetitions(cfg, c, res, t) ==
    [ res EXCEPT
        !.status = "learning",
        !.interval = At(cfg.learning_steps.relearning, 0),
        !.ease_factor = Max(cfg.min_ease_factor, c.ease_factor - 20),
        !.repetitions = 0,
        !.due_date = addMinutes(t, At(cfg.learning_steps.relearning, 0)) ]

handleReviewCardAgain(cfg, c, res, t) ==
    [ res EXCEPT
        !.status = "learning",
        !.interval = At(cfg.learning_steps.relearning, 0),
        !.ease_factor = Max(cfg.min_ease_factor, c.ease_factor - 20),
        !.due_date = addMinutes(t, At(cfg.learning_steps.relearning, 0)) ]

\* variant: the ease decrease of 'hard' is not clamped to min_ease_factor
handleReviewCardHardNoClamp(cfg, c, res, t) ==
    LET newInterval ==
            Max(1, Round(c.interval * cfg.hard_multiplier, EaseScale))
    IN  [ res EXCEPT
            !.ease_factor = c.ease_factor - cfg.ease_bonus,
            !.interval = newInterval,
            !.repetitions = c.repetitions + 1,
            !.due_date = addDays(t, newInterval) ]

handleReviewCardHard(cfg, c, res, t) ==
    LET newInterval ==
            Max(1, Round(c.interval * cfg.hard_multiplier, EaseScale))
    IN  [ res EXCEPT
            !.ease_factor = Max(cfg.min_ease_factor, c.ease_factor - cfg.ease_bonus),
            !.interval = newInterval,
            !.repetitions = c.repetitions + 1,
            !.due_date = addDays(t, newInterval) ]

\* variant: Math.floor in place of Math.round
handleReviewCardGoodFloor(cfg, c, res, t) ==
    LET newInterval ==
            IF c.repetitions = 0 THEN 1
            ELSE IF c.repetitions = 1 THEN 6
            ELSE (c.interval * c.ease_factor * cfg.new_interval_multiplier)
                     \div (EaseScale * EaseScale)
    IN  [ res EXCEPT
            !.interval = newInterval,
            !.repetitions = c.repetitions + 1,
            !.due_date = addDays(t, newInterval) ]

handleReviewCardGood(cfg, c, res, t) ==
    LET newInterval ==
            IF c.repetitions = 0 THEN 1
            ELSE IF c.repetitions = 1 THEN 6
            ELSE Round(c.interval * c.ease_factor * cfg.new_interval_multiplier,
                       EaseScale * EaseScale)
    IN  [ res EXCEPT
            !.interval = newInterval,
            !.repetitions = c.repetitions + 1,
            !.due_date = addDays(t, newInterval) ]

handleReviewCardEasy(cfg, c, res, t) ==
    LET newInterval ==
            IF c.repetitions = 0 THEN 4
            ELSE Round(c.interval * c.ease_factor * 130
                           * cfg.new_interval_multiplier,
                       EaseScale * EaseScale * EaseScale)
    IN  [ res EXCEPT
            !.ease_factor = Min(cfg.max_ease_factor, c.ease_factor + cfg.ease_bonus),
            !.interval = newInterval,
            !.repetitions = c.repetitions + 1,
            !.due_date = addDays(t, newInterval) ]

handleReviewCard(cfg, c, res, r, t) ==
    CASE r = "again" -> handleReviewCardAgain(cfg, c, res, t)
      [] r = "hard"  -> handleReviewCardHard(cfg, c, res, t)
      [] r = "good"  -> handleReviewCardGood(cfg, c, res, t)
      [] r = "easy"  -> handleReviewCardEasy(cfg, c, res, t)

\* the value calculateNextReview returns for a card that passed validateCard
AnkiCalculateNextReview(cfg, c, r, t) ==
    LET res == AnkiInitialResult(c, r, t) IN
    CASE c.status = "new"       -> handleNewCard(cfg, res, r, t)
      [] c.status = "learning"  -> handleLearningCard(cfg, c, res, r, t)
      [] c.status = "review"    -> handleReviewCard(cfg, c, res, r, t)
      [] c.status = "suspended" -> res

----------------------------------------------------------------------------
(* LeitnerStrategy *)

DEFAULT_LEITNER_CONFIG ==
    [ box_count |-> 5,
      box_intervals |-> <<1, 3, 7, 14, 30>>,
      promote_on_success |-> TRUE,
      demote_on_failure |-> TRUE,
      graduated_box |-> 4 ]

\* { ...DEFAULT_LEITNER_CONFIG, ...config } for the custom configuration of
\* the 'should use custom box configuration' test
CustomLeitnerConfig ==
    [ DEFAULT_LEITNER_CONFIG EXCEPT
        !.box_count = 3,
        !.box_intervals = <<2, 5, 10>>,
        !.graduated_box = 3 ]

LeitnerConfigs == {DEFAULT_LEITNER_CONFIG, CustomLeitnerConfig}

LeitnerAlgorithmName == "leitner"
LeitnerVersion == "1.0.0"

\* card.algorithm_data?.key || 0
CountOrZero(data, key) == IF key \in DOMAIN data THEN data[key] ELSE 0

getCurrentBox(cfg, c) ==
    IF /\ "leitner_box" \in DOMAIN c.algorithm_data
       /\ c.algorithm_data.leitner_box >= 1
       /\ c.algorithm_data.leitner_box <= cfg.box_count
    THEN c.algorithm_data.leitner_box
    ELSE IF \E i \in 1..Len(cfg.box_intervals) : c.interval <= cfg.box_intervals[i]
         THEN CHOOSE i \in 1..Len(cfg.box_intervals) :
                  /\ c.interval <= cfg.box_intervals[i]
                  /\ \A j \in 1..(i - 1) : c.interval > cfg.box_intervals[j]
         ELSE 1

calculateNextBox(cfg, currentBox, r) ==
    LET isCorrect == r = "good" \/ r = "easy"
        isIncorrect == r = "again"
    IN  IF isCorrect /\ cfg.promote_on_success
        THEN IF r = "easy"
             THEN Min(currentBox + 2, cfg.box_count)
             ELSE Min(currentBox + 1, cfg.box_count)
        ELSE IF isIncorrect /\ cfg.demote_on_failure
        THEN 1
        ELSE IF r = "hard"
        THEN Max(1, currentBox - 1)
        ELSE currentBox

\* variant: the graduated box itself still counts as learning
calculateStatusInclusive(cfg, box) ==
    IF box = 1 THEN "new"
    ELSE IF box <= cfg.graduated_box THEN "learning"
    ELSE "review"

calculateStatus(cfg, box) ==
    IF box = 1 THEN "new"
    ELSE IF box < cfg.graduated_box THEN "learning"
    ELSE "review"

updateSuccessCount(c, r) ==
    LET currentCount == CountOrZero(c.algorithm_data, "success_count") IN
    IF r = "good" \/ r = "easy" THEN currentCount + 1 ELSE currentCount

updateFailureCount(c, r) ==
    LET currentCount == CountOrZero(c.algorithm_data, "failure_count") IN
    IF r = "again" THEN currentCount + 1 ELSE currentCount

LeitnerAlgorithmData(c, r, t, currentBox, nextBox) ==
    Spread([ algorithm_name |-> LeitnerAlgorithmName,
             algorithm_version |-> LeitnerVersion,
             leitner_box |-> nextBox,
             previous_box |-> currentBox,
             last_response |-> r,
             response_time |-> t,
             success_count |-> updateSuccessCount(c, r),
             failure_count |-> updateFailureCount(c, r) ],
           c.algorithm_data)

\* the value calculateNextReview returns for a card that passed validateCard
LeitnerCalculateNextReview(cfg, c, r, t) ==
    LET currentBox == getCurrentBox(cfg, c)
        nextBox == calculateNextBox(cfg, currentBox, r)
        nextInterval == At(cfg.box_intervals, nextBox - 1)
        nextStatus == calculateStatus(cfg, nextBox)
    IN  [ status |-> nextStatus,
          ease_factor |-> 250,
          interval |-> nextInterval,
          repetitions |-> c.repetitions + 1,
          due_date |-> addDays(t, nextInterval),
          graduated_today |->
              currentBox < cfg.graduated_box /\ nextBox >= cfg.graduated_box,
          algorithm_data |-> LeitnerAlgorithmData(c, r, t, currentBox, nextBox) ]

----------------------------------------------------------------------------
(* State machine: a caller holding one card and one strategy instance *)

NoResult == [status |-> "none"]
Times == {0, MinutesPerDay}

\* algorithm_data of a card created by AnkiSM2Strategy.initializeNewCard
AnkiNewCardData ==
    [ algorithm_name |-> AnkiAlgorithmName,
      algorithm_version |-> AnkiVersion,
      created_at |-> 0 ]

\* cards satisfying the item invariants, for an SM-2 strategy with config cfg
AnkiCards(cfg) ==
    LET steps == cfg.learning_steps.initial \o cfg.learning_steps.relearning IN
    [ id : {"card-1"},
      status : CardStatus,
      ease_factor : {cfg.min_ease_factor, 250, cfg.max_ease_factor},
      interval : {1, 6} \cup {steps[i] : i \in 1..Len(steps)},
      repetitions : {0, 1, 2},
      due_date : {0},
      algorithm_data : {EmptyData, AnkiNewCardData} ]

LeitnerCardData(cfg) ==
    {EmptyData}
      \cup {[leitner_box |-> b] : b \in 1..5}
      \cup {[leitner_box |-> b, success_count |-> 0, failure_count |-> 0] :
                b \in 1..cfg.box_count}

LeitnerCards(cfg) ==
    [ id : {"card-1"},
      status : CardStatus,
      ease_factor : {250},
      interval : {cfg.box_intervals[i] : i \in 1..Len(cfg.box_intervals)} \cup {45},
      repetitions : {0, 1},
      due_date : {0},
      algorithm_data : LeitnerCardData(cfg) ]

InBounds(c) ==
    /\ c.interval <= MaxInterval
    /\ c.repetitions <= MaxRepetitions

\* The tally kept for a Leitner item: how many 'good'/'easy' and how many
\* 'again' responses it was given, and whether the algorithm_data of every
\* update so far was fed back into it.
EmptyLog == [success |-> 0, failure |-> 0, fedBack |-> TRUE]

Tally(log, r) ==
    [ log EXCEPT
        !.success = IF r \in {"good", "easy"} THEN @ + 1 ELSE @,
        !.failure = IF r = "again" THEN @ + 1 ELSE @ ]

\* the session variables while no LearningSession exists
NoSession ==
    /\ sessionConfig = [maxNewCards |-> 0, maxReviewCards |-> 0,
                        learningAheadLimit |-> 0]
    /\ sessionQueue = <<>>
    /\ completedCards = <<>>
    /\ stats = [totalCards |-> 0]
    /\ currentCardIndex = 0
    /\ lastOp = [op |-> "none"]
    /\ snapshot = [op |-> "none"]
    /\ initialQueue = <<>>
    /\ undoCount = 0

\* no factory and no daily queue are in play
NoFactory == algorithms = <<>>

NoQueue == dailyQueue = [op |-> "none"]

\* AnkiSM2Strategy.calculateNextReview: throws 'Invalid card data' or returns
\* the update
AnkiReview ==
    /\ algorithm = AnkiAlgorithmName
    /\ pc = "idle"
    /\ InBounds(card)
    /\ \E r \in UserResponse, t \in Times :
          /\ response' = r
          /\ currentTime' = t
          /\ IF validateCard(card)
             THEN /\ result' = AnkiCalculateNextReview(config, card, r, t)
                  /\ pc' = "returned"
             ELSE /\ result' = NoResult
                  /\ pc' = "thrown"
    /\ UNCHANGED <<algorithm, config, card, reviewLog>>
    /\ UNCHANGED <<sessionVars, factoryVars, queueVars>>

\* LeitnerStrategy.calculateNextReview: throws 'Invalid card data' or returns
\* the update
LeitnerReview ==
    /\ algorithm = LeitnerAlgorithmName
    /\ pc = "idle"
    /\ InBounds(card)
    /\ \E r \in UserResponse, t \in Times :
          /\ response' = r
          /\ currentTime' = t
          /\ IF validateCard(card)
             THEN /\ result' = LeitnerCalculateNextReview(config, card, r, t)
                  /\ pc' = "returned"
                  /\ reviewLog' = Tally(reviewLog, r)
             ELSE /\ result' = NoResult
                  /\ pc' = "thrown"
                  /\ reviewLog' = reviewLog
    /\ UNCHANGED <<algorithm, config, card>>
    /\ UNCHANGED <<sessionVars, factoryVars, queueVars>>

\* the caller copies status, ease_factor, interval and repetitions of the
\* update into its card
FeedBackFields ==
    /\ pc = "returned"
    /\ card' = [ card EXCEPT
                   !.status = result.status,
                   !.ease_factor = result.ease_factor,
                   !.interval = result.interval,
                   !.repetitions = result.repetitions ]
    /\ pc' = "idle"
    /\ reviewLog' = IF algorithm = LeitnerAlgorithmName
                    THEN [reviewLog EXCEPT !.fedBack = FALSE]
                    ELSE reviewLog
    /\ UNCHANGED <<algorithm, config, response, currentTime, result>>
    /\ UNCHANGED <<sessionVars, factoryVars, queueVars>>

\* the caller stores the whole update: due_date.toISOString() raises a
\* RangeError on an invalid Date
FeedBackAll ==
    /\ pc = "returned"
    /\ IF result.due_date = InvalidDate
       THEN /\ pc' = "thrown"
            /\ card' = card
       ELSE /\ card' = [ card EXCEPT
                           !.status = result.status,
                           !.ease_factor = result.ease_factor,
                           !.interval = result.interval,
                           !.repetitions = result.repetitions,
                           !.due_date = result.due_date,
                           !.algorithm_data = result.algorithm_data ]
            /\ pc' = "idle"
    /\ UNCHANGED <<algorithm, config, response, currentTime, result, reviewLog>>
    /\ UNCHANGED <<sessionVars, factoryVars, queueVars>>

InitSM2 ==
    /\ algorithm = AnkiAlgorithmName
    /\ config \in AnkiConfigs
    /\ card \in AnkiCards(config)
    /\ response = "none"
    /\ currentTime = 0
    /\ result = NoResult
    /\ pc = "idle"
    /\ reviewLog = EmptyLog
    /\ NoSession
    /\ NoFactory
    /\ NoQueue

NextSM2 == AnkiReview \/ FeedBackFields \/ FeedBackAll

SpecSM2 == InitSM2 /\ [][NextSM2]_vars

InitLeitner ==
    /\ algorithm = LeitnerAlgorithmName
    /\ config \in LeitnerConfigs
    /\ card \in LeitnerCards(config)
    /\ response = "none"
    /\ currentTime = 0
    /\ result = NoResult
    /\ pc = "idle"
    /\ reviewLog = EmptyLog
    /\ NoSession
    /\ NoFactory
    /\ NoQueue

NextLeitner == LeitnerReview \/ FeedBackFields \/ FeedBackAll

SpecLeitner == InitLeitner /\ [][NextLeitner]_vars

----------------------------------------------------------------------------
(* LearningSession: one learner's study session over a Session Queue.      *)
(* The session takes place within one minute of wall-clock time, Now; the  *)
(* wall-clock statistics (sessionStartTime, studyDuration) and the fields  *)
(* of a CardReview that the session never reads (cardId, responseTime,     *)
(* timestamp) are left out.  averageResponseTime and accuracyRate are      *)
(* exact fractions in lowest terms.                                        *)

MaxCards == 3
MaxUndo == 1

Now == 1000
NoCard == [id |-> "null"]
ResponseTimes == {2000}

RECURSIVE GCD(_, _)
GCD(a, b) == IF b = 0 THEN a ELSE GCD(b, a % b)

\* the fraction n/d (n >= 0, d > 0) in lowest terms
Fraction(n, d) ==
    LET g == GCD(n, d) IN [num |-> n \div g, den |-> d \div g]

\* the stats object the constructor builds
InitialStats ==
    [ totalCards |-> 0,
      completedCards |-> 0,
      newCardsLearned |-> 0,
      reviewCardsCompleted |-> 0,
      learningCardsCompleted |-> 0,
      averageResponseTime |-> Fraction(0, 1),
      accuracyRate |-> Fraction(0, 1) ]

\* LearningSessionConfig of the session tests, and one whose limits bind on
\* a small collection
TestSessionConfig ==
    [maxNewCards |-> 5, maxReviewCards |-> 10, learningAheadLimit |-> 20]

SmallSessionConfig ==
    [maxNewCards |-> 1, maxReviewCards |-> 1, learningAheadLimit |-> 10]

SessionConfigs == {TestSessionConfig, SmallSessionConfig}

SessionCard(id, status, ease, interval, repetitions, due) ==
    [ id |-> id, status |-> status, ease_factor |-> ease, interval |-> interval,
      repetitions |-> repetitions, due_date |-> due,
      algorithm_data |-> EmptyData ]

\* the cards of the session tests (mockCards) and variants of them
CardPool ==
    << SessionCard("review-card-1", "review", 230, 7, 2, Now - 60),
       SessionCard("new-card-1", "new", 250, 1, 0, Now - 1),
       SessionCard("learning-card-1", "learning", 250, 10, 0, Now + 5),
       SessionCard("suspended-card", "suspended", 250, 1, 0, Now),
       SessionCard("learning-card-2", "learning", 250, 1, 0, Now),
       SessionCard("new-card-2", "new", 250, 1, 0, Now - 60),
       SessionCard("review-card-2", "review", 250, 1, 1, Now - 1) >>

\* the cards of the pool at the positions in chosen, in pool order
PickCards(chosen) ==
    LET F[i \in 0..Len(CardPool)] ==
            IF i = 0 THEN <<>>
            ELSE IF i \in chosen THEN Append(F[i - 1], CardPool[i])
            ELSE F[i - 1]
    IN  F[Len(CardPool)]

Reverse(s) == [i \in 1..Len(s) |-> s[Len(s) + 1 - i]]

\* the item collections handed to initializeSession
CardCollections ==
    LET picks == {PickCards(chosen) :
                     chosen \in {c \in SUBSET (1..Len(CardPool)) :
                                    Cardinality(c) <= MaxCards}}
    IN  picks \cup {Reverse(q) : q \in picks}

\* AnkiAlgorithm.getCardsForReview
getCardsForReview(cards, t) ==
    LET F[i \in 0..Len(cards)] ==
            IF i = 0 THEN <<>>
            ELSE IF cards[i].status # "suspended" /\ cards[i].due_date <= t
                 THEN Append(F[i - 1], cards[i])
                 ELSE F[i - 1]
    IN  F[Len(cards)]

\* cards.filter(card => card.status === status)
FilterStatus(cards, status) ==
    LET F[i \in 0..Len(cards)] ==
            IF i = 0 THEN <<>>
            ELSE IF cards[i].status = status THEN Append(F[i - 1], cards[i])
            ELSE F[i - 1]
    IN  F[Len(cards)]

\* cards.filter(card => dueTime <= aheadLimit)
FilterAhead(cards, limit) ==
    LET F[i \in 0..Len(cards)] ==
            IF i = 0 THEN <<>>
            ELSE IF cards[i].due_date <= limit THEN Append(F[i - 1], cards[i])
            ELSE F[i - 1]
    IN  F[Len(cards)]

\* a variant that applies no limit
SliceAll(array, n) == array

\* array.slice(0, n) for n >= 0
Slice(array, n) == SubSeq(array, 1, Min(n, Len(array)))

statusPriority(status) ==
    CASE status = "new" -> 1
      [] status = "learning" -> 2
      [] status = "review" -> 3
      [] status = "suspended" -> 4

\* a variant of the comparator that looks at the status only
ComparePriorityStatusOnly(a, b) ==
    statusPriority(a.status) - statusPriority(b.status)

\* the comparator of sortCardsByPriority
ComparePriority(a, b) ==
    LET statusDiff == statusPriority(a.status) - statusPriority(b.status) IN
    IF statusDiff # 0 THEN statusDiff ELSE a.due_date - b.due_date

\* [...cards].sort(comparator): Array.prototype.sort is stable, so a card goes
\* after every card placed before it that does not compare greater
sortCardsByPriority(cards) ==
    LET InsertCard(sorted, c) ==
            LET k == Cardinality({i \in 1..Len(sorted) :
                                     ComparePriority(sorted[i], c) <= 0})
            IN  SubSeq(sorted, 1, k) \o <<c>> \o SubSeq(sorted, k + 1, Len(sorted))
        F[i \in 0..Len(cards)] ==
            IF i = 0 THEN <<>> ELSE InsertCard(F[i - 1], cards[i])
    IN  F[Len(cards)]

\* a variant that queues the whole collection
BuildSessionQueueUnfiltered(cfg, allCards, t) == sortCardsByPriority(allCards)

\* the queue initializeSession builds
BuildSessionQueue(cfg, allCards, t) ==
    LET dueCards == getCardsForReview(allCards, t)
        newCards == FilterStatus(dueCards, "new")
        learningCards == FilterStatus(dueCards, "learning")
        reviewCards == FilterStatus(dueCards, "review")
        selectedNewCards == Slice(newCards, cfg.maxNewCards)
        selectedReviewCards == Slice(reviewCards, cfg.maxReviewCards)
        selectedLearningCards ==
            FilterAhead(learningCards, t + cfg.learningAheadLimit)
    IN  sortCardsByPriority(
            selectedNewCards \o selectedLearningCards \o selectedReviewCards)

\* getCurrentCard, on a queue and a 0-based cursor
CardAt(queue, index) ==
    IF index >= Len(queue) THEN NoCard ELSE queue[index + 1]

getCurrentCard == CardAt(sessionQueue, currentCardIndex)

isCompleted == currentCardIndex >= Len(sessionQueue)

\* this.algorithm.calculateNextReview(currentCard, response)
SessionCalculateNextReview(c, r) ==
    IF algorithm = AnkiAlgorithmName
    THEN AnkiCalculateNextReview(config, c, r, Now)
    ELSE LeitnerCalculateNextReview(config, c, r, Now)

\* a variant that splices the card in at the cursor
insertIndexAtCursor(queue, index, c) == index

\* the index at which insertCardInQueue splices the card in
insertIndex(queue, index, c) ==
    IF c.status = "learning"
    THEN LET minGap == Min(4, Len(queue) \div 10)
         IN  Min(index + 1 + minGap, Len(queue))
    ELSE index + 1

\* a variant that puts the card in place of the one at the insert position
insertCardInQueueReplacing(queue, index, c) ==
    LET at == insertIndex(queue, index, c) IN
    SubSeq(queue, 1, at) \o <<c>> \o SubSeq(queue, at + 2, Len(queue))

\* this.sessionQueue after insertCardInQueue(c)
insertCardInQueue(queue, index, c) ==
    LET at == insertIndex(queue, index, c) IN
    SubSeq(queue, 1, at) \o <<c>> \o SubSeq(queue, at + 1, Len(queue))

\* a variant whose copy keeps the status of the current card
RequeuedCardKeepsStatus(c, update) ==
    [ c EXCEPT
        !.ease_factor = update.ease_factor,
        !.interval = update.interval,
        !.repetitions = update.repetitions,
        !.due_date = update.due_date ]

\* the copy of the current card that goes back into the queue
RequeuedCard(c, update) ==
    [ c EXCEPT
        !.status = update.status,
        !.ease_factor = update.ease_factor,
        !.interval = update.interval,
        !.repetitions = update.repetitions,
        !.due_date = update.due_date ]

IsCorrect(r) == r = "good" \/ r = "easy"

CorrectResponses(history) ==
    Cardinality({i \in 1..Len(history) : IsCorrect(history[i].response)})

\* this.stats after updateSessionStats(card, response, responseTime), history
\* being this.completedCards with the new review pushed
updateSessionStats(st, history, c, rt) ==
    LET n == st.completedCards + 1
        avg == st.averageResponseTime
    IN  [ st EXCEPT
            !.completedCards = n,
            !.newCardsLearned = IF c.status = "new" THEN @ + 1 ELSE @,
            !.learningCardsCompleted = IF c.status = "learning" THEN @ + 1 ELSE @,
            !.reviewCardsCompleted = IF c.status = "review" THEN @ + 1 ELSE @,
            !.averageResponseTime =
                Fraction(avg.num * (n - 1) + rt * avg.den, avg.den * n),
            !.accuracyRate = Fraction(CorrectResponses(history) * 100, n) ]

\* the session fields an operation can change
SessionState ==
    [ queue |-> sessionQueue, index |-> currentCardIndex,
      history |-> completedCards, stats |-> stats ]

Op(name, args, threw, returned) ==
    [op |-> name, args |-> args, threw |-> threw, returned |-> returned]

NoSnapshot == [op |-> "none"]

Constructed == lastOp.op = "none"

\* initializeSession(allCards), called once on the constructed session
InitializeSession ==
    /\ Constructed
    /\ \E allCards \in CardCollections :
          LET queue == BuildSessionQueue(sessionConfig, allCards, currentTime) IN
          /\ sessionQueue' = queue
          /\ stats' = [stats EXCEPT !.totalCards = Len(queue)]
          /\ currentCardIndex' = 0
          /\ initialQueue' = queue
          /\ lastOp' = Op("initializeSession", allCards, FALSE, "void")
    /\ snapshot' = NoSnapshot
    /\ UNCHANGED <<strategyVars, factoryVars, queueVars,
                   sessionConfig, completedCards, undoCount>>

\* processResponse(response, responseTime): throws 'No card available for
\* response' or what the strategy throws before anything is changed, throws
\* RangeError from toISOString() after the review is recorded, or returns
\* { updateResult, nextCard }
ProcessResponse ==
    /\ ~Constructed
    /\ \E r \in UserResponse, responseTime \in ResponseTimes :
          LET currentCard == getCurrentCard
              args == [response |-> r]
          IN
          IF currentCard = NoCard \/ ~validateCard(currentCard)
          THEN /\ lastOp' = Op("processResponse", args, TRUE, "none")
               /\ snapshot' = NoSnapshot
               /\ UNCHANGED <<sessionQueue, completedCards, stats,
                              currentCardIndex>>
          ELSE
          LET updateResult == SessionCalculateNextReview(currentCard, r)
              \* status: the status of the card when it was answered, kept
              \* with the entry for the properties only
              history == Append(completedCards,
                                [ response |-> r,
                                  status |-> currentCard.status ])
              stats1 == updateSessionStats(stats, history, currentCard,
                                           responseTime)
              requeued == RequeuedCard(currentCard, updateResult)
              relearning == updateResult.status = "learning"
                            /\ currentCard.status = "review"
              queue1 == IF relearning
                        THEN insertCardInQueue(sessionQueue, currentCardIndex,
                                               requeued)
                        ELSE sessionQueue
              stats2 == IF relearning
                        THEN [stats1 EXCEPT !.totalCards = @ + 1]
                        ELSE stats1
              \* a comparison with an invalid Date is false
              continueLearning == updateResult.status = "learning"
                                  /\ updateResult.due_date # InvalidDate
                                  /\ updateResult.due_date <= currentTime
              queue2 == IF continueLearning
                        THEN insertCardInQueue(queue1, currentCardIndex,
                                               requeued)
                        ELSE queue1
              stats3 == IF continueLearning
                        THEN [stats2 EXCEPT !.totalCards = @ + 1]
                        ELSE stats2
          IN
          /\ completedCards' = history
          /\ snapshot' = SessionState
          /\ IF relearning /\ updateResult.due_date = InvalidDate
             THEN /\ stats' = stats1
                  /\ UNCHANGED <<sessionQueue, currentCardIndex>>
                  /\ lastOp' = Op("processResponse", args, TRUE, "none")
             ELSE /\ stats' = stats3
                  /\ sessionQueue' = queue2
                  /\ currentCardIndex' = currentCardIndex + 1
                  /\ lastOp' = Op("processResponse", args, FALSE,
                                  [ updateResult |-> updateResult,
                                    nextCard |-> CardAt(queue2,
                                                    currentCardIndex + 1) ])
    /\ UNCHANGED <<strategyVars, factoryVars, queueVars,
                   sessionConfig, initialQueue, undoCount>>

\* a variant that counts the skipped card as completed
SkipCurrentCardCounting ==
    /\ ~Constructed
    /\ getCurrentCard # NoCard
    /\ currentCardIndex' = currentCardIndex + 1
    /\ stats' = [stats EXCEPT !.completedCards = @ + 1]
    /\ lastOp' = Op("skipCurrentCard", <<>>, FALSE,
                    CardAt(sessionQueue, currentCardIndex + 1))
    /\ snapshot' = NoSnapshot
    /\ UNCHANGED <<strategyVars, factoryVars, queueVars,
                   sessionConfig, sessionQueue, completedCards,
                   initialQueue, undoCount>>

\* skipCurrentCard(): returns null, or moves the cursor on and returns the
\* card it then points at
SkipCurrentCard ==
    /\ ~Constructed
    /\ IF getCurrentCard = NoCard
       THEN /\ lastOp' = Op("skipCurrentCard", <<>>, FALSE, NoCard)
            /\ UNCHANGED currentCardIndex
       ELSE /\ currentCardIndex' = currentCardIndex + 1
            /\ lastOp' = Op("skipCurrentCard", <<>>, FALSE,
                            CardAt(sessionQueue, currentCardIndex + 1))
    /\ snapshot' = NoSnapshot
    /\ UNCHANGED <<strategyVars, factoryVars, queueVars,
                   sessionConfig, sessionQueue, completedCards,
                   stats, initialQueue, undoCount>>

\* a variant that takes back the completed count only
undoSessionStatsCountOnly(st, c) == [st EXCEPT !.completedCards = @ - 1]

\* this.stats after undoLastReview has moved the cursor back to c
undoSessionStats(st, c) ==
    [ st EXCEPT
        !.completedCards = @ - 1,
        !.newCardsLearned =
            IF c # NoCard /\ c.status = "new" THEN Max(0, @ - 1) ELSE @,
        !.learningCardsCompleted =
            IF c # NoCard /\ c.status = "learning" THEN Max(0, @ - 1) ELSE @,
        !.reviewCardsCompleted =
            IF c # NoCard /\ c.status = "review" THEN Max(0, @ - 1) ELSE @ ]

\* a variant of the guard that looks at the cursor only
NothingToUndoCursorOnly == currentCardIndex = 0

\* the guard of undoLastReview
NothingToUndo == Len(completedCards) = 0 \/ currentCardIndex = 0

\* undoLastReview(): returns false, or takes back the last review and returns
\* true
UndoLastReview ==
    /\ ~Constructed
    /\ IF NothingToUndo
       THEN /\ lastOp' = Op("undoLastReview", <<>>, FALSE, FALSE)
            /\ UNCHANGED <<completedCards, currentCardIndex, stats, undoCount>>
       ELSE /\ undoCount < MaxUndo
            /\ completedCards' = SubSeq(completedCards, 1,
                                        Len(completedCards) - 1)
            /\ currentCardIndex' = currentCardIndex - 1
            /\ stats' = undoSessionStats(stats,
                            CardAt(sessionQueue, currentCardIndex - 1))
            /\ undoCount' = undoCount + 1
            /\ lastOp' = Op("undoLastReview", <<>>, FALSE, TRUE)
    /\ snapshot' = IF lastOp.op = "processResponse" /\ ~lastOp.threw
                   THEN snapshot ELSE NoSnapshot
    /\ UNCHANGED <<strategyVars, factoryVars, queueVars,
                   sessionConfig, sessionQueue, initialQueue>>

\* endSession(): returns { stats, studySession }; the fields it sets are
\* wall-clock times
EndSession ==
    /\ ~Constructed
    /\ lastOp' = Op("endSession", <<>>, FALSE,
                    [ cards_studied |-> stats.completedCards,
                      correct_answers |-> CorrectResponses(completedCards) ])
    /\ snapshot' = NoSnapshot
    /\ UNCHANGED <<strategyVars, factoryVars, queueVars,
                   sessionConfig, sessionQueue, completedCards,
                   stats, currentCardIndex, initialQueue, undoCount>>

\* new LearningSession(config): the default strategy is SM-2
InitSession ==
    /\ algorithm = AnkiAlgorithmName
    /\ config = DEFAULT_ANKI_CONFIG
    /\ card = NoCard
    /\ response = "none"
    /\ currentTime = Now
    /\ result = NoResult
    /\ pc = "idle"
    /\ reviewLog = EmptyLog
    /\ sessionConfig \in SessionConfigs
    /\ sessionQueue = <<>>
    /\ completedCards = <<>>
    /\ stats = InitialStats
    /\ currentCardIndex = 0
    /\ lastOp = [op |-> "none"]
    /\ snapshot = NoSnapshot
    /\ initialQueue = <<>>
    /\ undoCount = 0
    /\ NoFactory
    /\ NoQueue

NextSession ==
    \/ InitializeSession
    \/ ProcessResponse
    \/ SkipCurrentCard
    \/ UndoLastReview
    \/ EndSession

SpecSession == InitSession /\ [][NextSession]_vars

\* the learner answers the card at the cursor
Answer == ~isCompleted /\ ProcessResponse

NextAnswering == InitializeSession \/ Answer

\* a session in which the learner answers every card presented, without
\* skipping and without undoing, for as long as a card is presented
SpecAnswering ==
    InitSession /\ [][NextAnswering]_vars /\ WF_vars(Answer)

----------------------------------------------------------------------------
(* AlgorithmFactory.  A configuration object is a record holding the keys *)
(* it defines; a strategy instance is the name of its class and its merged *)
(* configuration.                                                          *)

\* defaultConfig of the registered algorithms
RegisteredAnkiConfig ==
    [ learning_steps |->
        [ initial |-> <<1, 10>>,
          relearning |-> <<10>>,
          graduating_interval |-> 1,
          easy_interval |-> 4 ],
      max_ease_factor |-> 250,
      min_ease_factor |-> 130,
      ease_bonus |-> 15,
      hard_multiplier |-> 120,
      new_interval_multiplier |-> 100 ]

RegisteredLeitnerConfig ==
    [ box_count |-> 5,
      box_intervals |-> <<1, 3, 7, 14, 30>>,
      promote_on_success |-> TRUE,
      demote_on_failure |-> TRUE,
      graduated_box |-> 4 ]

RegisteredSimpleIntervalConfig ==
    [initial_interval |-> 1, success_multiplier |-> 2, failure_reset |-> TRUE]

\* the registry after registerDefaultAlgorithms; keys lists the keys of
\* defaultConfig in the order a for-in loop visits them
DefaultAlgorithms ==
    [ type \in {"anki-sm2", "leitner", "simple-interval"} |->
        CASE type = "anki-sm2" ->
               [ name |-> "anki-sm2", version |-> "2.1.0",
                 factory |-> "AnkiSM2Strategy",
                 defaultConfig |-> RegisteredAnkiConfig,
                 keys |-> << "learning_steps", "max_ease_factor",
                             "min_ease_factor", "ease_bonus",
                             "hard_multiplier", "new_interval_multiplier" >> ]
          [] type = "leitner" ->
               [ name |-> "leitner", version |-> "1.0.0",
                 factory |-> "LeitnerStrategy",
                 defaultConfig |-> RegisteredLeitnerConfig,
                 keys |-> << "box_count", "box_intervals",
                             "promote_on_success", "demote_on_failure",
                             "graduated_box" >> ]
          [] type = "simple-interval" ->
               [ name |-> "simple-interval", version |-> "1.0.0",
                 factory |-> "not yet implemented",
                 defaultConfig |-> RegisteredSimpleIntervalConfig,
                 keys |-> << "initial_interval", "success_multiplier",
                             "failure_reset" >> ] ]

\* algorithm types and names a caller passes
AlgorithmNames ==
    {"anki-sm2", "leitner", "simple-interval", "fsrs", "unknown-algorithm"}

AlgorithmVersions == {"2.1.0", "1.0.0", "0.9.0"}

\* configuration objects a caller passes
FactoryConfigs ==
    << EmptyData,
       [max_ease_factor |-> 250],
       [ learning_steps |-> RegisteredAnkiConfig.learning_steps,
         max_ease_factor |-> 250,
         min_ease_factor |-> 130 ],
       RegisteredAnkiConfig,
       [ learning_steps |-> CustomAnkiConfig.learning_steps,
         max_ease_factor |-> 300,
         ease_bonus |-> 20 ],
       RegisteredLeitnerConfig,
       [box_count |-> 3],
       [box_count |-> 3, box_intervals |-> <<2, 5, 10>>, graduated_box |-> 3],
       RegisteredSimpleIntervalConfig >>

Thrown(message) == [threw |-> TRUE, value |-> message]
Returned(value) == [threw |-> FALSE, value |-> value]

\* registry.factory(config)
CallFactory(factory, cfg) ==
    CASE factory = "AnkiSM2Strategy" ->
           Returned([ name |-> AnkiAlgorithmName,
                      config |-> Spread(DEFAULT_ANKI_CONFIG, cfg) ])
      [] factory = "LeitnerStrategy" ->
           LET merged == Spread(DEFAULT_LEITNER_CONFIG, cfg) IN
           IF Len(merged.box_intervals) # merged.box_count
           THEN Thrown("Box intervals length must match box count")
           ELSE Returned([name |-> LeitnerAlgorithmName, config |-> merged])
      [] OTHER ->
           Thrown("Simple Interval algorithm not yet implemented")

\* createAlgorithm(type, config); given is false when config is left out
createAlgorithm(registry, type, given, cfg) ==
    IF type \notin DOMAIN registry
    THEN Thrown("Algorithm is not registered")
    ELSE LET mergedConfig ==
                 IF given THEN Spread(registry[type].defaultConfig, cfg)
                          ELSE registry[type].defaultConfig
         IN  CallFactory(registry[type].factory, mergedConfig)

\* getAlgorithmByName(name): the type found, or "undefined"
getAlgorithmByName(registry, name) ==
    IF \E type \in DOMAIN registry : registry[type].name = name
    THEN CHOOSE type \in DOMAIN registry : registry[type].name = name
    ELSE "undefined"

\* createFromPersistedData(algorithmName, algorithmVersion, config)
createFromPersistedData(registry, name, version, cfg) ==
    LET found == getAlgorithmByName(registry, name) IN
    IF found = "undefined"
    THEN createAlgorithm(registry, AnkiAlgorithmName, TRUE, cfg)
    ELSE createAlgorithm(registry, found, TRUE, cfg)

NotRegisteredError(type) == [error |-> "not registered", subject |-> type]
MissingKeyError(key) == [error |-> "missing key", subject |-> key]

\* a variant that stops at the first missing key
MissingKeysFirstOnly(keys, cfg) ==
    IF \E i \in 1..Len(keys) : keys[i] \notin DOMAIN cfg
    THEN << MissingKeyError(
                keys[CHOOSE i \in 1..Len(keys) :
                        /\ keys[i] \notin DOMAIN cfg
                        /\ \A j \in 1..(i - 1) : keys[j] \in DOMAIN cfg]) >>
    ELSE <<>>

\* the errors validateConfig collects for the keys of a default configuration
MissingKeys(keys, cfg) ==
    LET F[i \in 0..Len(keys)] ==
            IF i = 0 THEN <<>>
            ELSE IF keys[i] \notin DOMAIN cfg
                 THEN Append(F[i - 1], MissingKeyError(keys[i]))
                 ELSE F[i - 1]
    IN  F[Len(keys)]

\* validateConfig(type, config)
validateConfig(registry, type, cfg) ==
    IF type \notin DOMAIN registry
    THEN [valid |-> FALSE, errors |-> <<NotRegisteredError(type)>>]
    ELSE LET errors == MissingKeys(registry[type].keys, cfg) IN
         [valid |-> Len(errors) = 0, errors |-> errors]

\* what a call on the factory or on the queue manager leaves alone
callFrame ==
    <<strategyVars, sessionConfig, sessionQueue, completedCards, stats,
      currentCardIndex, snapshot, initialQueue, undoCount>>

CreateAlgorithm ==
    /\ \E type \in AlgorithmNames, i \in 0..Len(FactoryConfigs) :
          LET cfg == IF i = 0 THEN EmptyData ELSE FactoryConfigs[i]
              outcome == createAlgorithm(algorithms, type, i > 0, cfg)
          IN  lastOp' = Op("createAlgorithm",
                           [type |-> type, given |-> i > 0, config |-> cfg],
                           outcome.threw, outcome.value)
    /\ UNCHANGED <<callFrame, algorithms, queueVars>>

CreateFromPersistedData ==
    /\ \E name \in AlgorithmNames, version \in AlgorithmVersions,
          i \in 1..Len(FactoryConfigs) :
          LET cfg == FactoryConfigs[i]
              outcome == createFromPersistedData(algorithms, name, version, cfg)
          IN  lastOp' = Op("createFromPersistedData",
                           [name |-> name, version |-> version, config |-> cfg],
                           outcome.threw, outcome.value)
    /\ UNCHANGED <<callFrame, algorithms, queueVars>>

ValidateConfig ==
    /\ \E type \in AlgorithmNames, i \in 1..Len(FactoryConfigs) :
          LET cfg == FactoryConfigs[i] IN
          lastOp' = Op("validateConfig", [type |-> type, config |-> cfg],
                       FALSE, validateConfig(algorithms, type, cfg))
    /\ UNCHANGED <<callFrame, algorithms, queueVars>>

\* AlgorithmFactory.getInstance()
InitFactory ==
    /\ algorithm = "none"
    /\ config = EmptyData
    /\ card = NoCard
    /\ response = "none"
    /\ currentTime = 0
    /\ result = NoResult
    /\ pc = "idle"
    /\ reviewLog = EmptyLog
    /\ NoSession
    /\ NoQueue
    /\ algorithms = DefaultAlgorithms

NextFactory == CreateAlgorithm \/ CreateFromPersistedData \/ ValidateConfig

SpecFactory == InitFactory /\ [][NextFactory]_vars

----------------------------------------------------------------------------
(* migrateCard: an item is moved from one strategy to the other and back.  *)
(* config holds the configuration of both strategy instances.              *)

\* SpacedRepetitionStrategy.migrateCard
baseMigrateCard(c, fromAlgorithm, t) ==
    [ c EXCEPT !.algorithm_data =
        Spread(c.algorithm_data,
               [migrated_from |-> fromAlgorithm, migrated_at |-> t]) ]

\* card.algorithm_data?.leitner_box || 1
LeitnerBoxOrOne(c) ==
    IF "leitner_box" \in DOMAIN c.algorithm_data
       /\ c.algorithm_data.leitner_box # 0
    THEN c.algorithm_data.leitner_box
    ELSE 1

\* AnkiSM2Strategy.migrateCard
AnkiMigrateCard(cfg, c, fromAlgorithm, t) ==
    LET migratedCard == baseMigrateCard(c, fromAlgorithm, t)
        leitnerBox == LeitnerBoxOrOne(c)
    IN
    [ migratedCard EXCEPT
        !.interval = IF fromAlgorithm = LeitnerAlgorithmName
                     THEN IF leitnerBox >= 1 THEN 2 ^ (leitnerBox - 1) ELSE 1
                     ELSE @,
        !.ease_factor =
            IF fromAlgorithm = LeitnerAlgorithmName THEN 250
            ELSE IF fromAlgorithm = "simple-interval"
                 THEN Max(cfg.min_ease_factor,
                          Min(cfg.max_ease_factor, c.ease_factor))
                 ELSE @,
        !.algorithm_data =
            Spread(@, [ algorithm_name |-> AnkiAlgorithmName,
                        algorithm_version |-> AnkiVersion ]) ]

\* the box LeitnerStrategy.migrateCard picks before clamping it
targetBoxFor(cfg, c, fromAlgorithm) ==
    IF fromAlgorithm = AnkiAlgorithmName
    THEN LET byRepetitions ==
                 IF c.repetitions = 0 THEN 1
                 ELSE IF c.repetitions <= 2 THEN 2
                 ELSE IF c.repetitions <= 5 THEN 3
                 ELSE IF c.repetitions <= 10 THEN 4
                 ELSE 5
         IN  IF c.interval >= 30 THEN Max(byRepetitions, 5)
             ELSE IF c.interval >= 14 THEN Max(byRepetitions, 4)
             ELSE IF c.interval >= 7 THEN Max(byRepetitions, 3)
             ELSE IF c.interval >= 3 THEN Max(byRepetitions, 2)
             ELSE byRepetitions
    ELSE IF fromAlgorithm = "simple-interval"
    THEN LET reached == {i \in 1..Len(cfg.box_intervals) :
                            c.interval >= cfg.box_intervals[i]}
         IN  IF reached = {} THEN 1
             ELSE CHOOSE i \in reached : \A j \in reached : j <= i
    ELSE 1

\* LeitnerStrategy.migrateCard
LeitnerMigrateCard(cfg, c, fromAlgorithm, t) ==
    LET migratedCard == baseMigrateCard(c, fromAlgorithm, t)
        targetBox == Max(1, Min(targetBoxFor(cfg, c, fromAlgorithm),
                                cfg.box_count))
    IN
    [ migratedCard EXCEPT
        !.interval = At(cfg.box_intervals, targetBox - 1),
        !.algorithm_data =
            Spread(@, [ algorithm_name |-> LeitnerAlgorithmName,
                        algorithm_version |-> LeitnerVersion,
                        leitner_box |-> targetBox,
                        success_count |-> 0,
                        failure_count |-> 0 ]) ]

\* an SM-2 configuration whose ease ceiling lies below the default ease
LowEaseAnkiConfig == [DEFAULT_ANKI_CONFIG EXCEPT !.max_ease_factor = 200]

\* the 'should use custom ease factor bounds' configuration
TestAnkiConfig ==
    [ DEFAULT_ANKI_CONFIG EXCEPT
        !.max_ease_factor = 300, !.min_ease_factor = 150, !.ease_bonus = 20 ]

MigrationAnkiConfigs == AnkiConfigs \cup {TestAnkiConfig, LowEaseAnkiConfig}

\* items satisfying the item invariants under the strategy they come from
MigrationCards(name, cfg) ==
    [ id : {"card-1"},
      status : CardStatus,
      ease_factor : {cfg.sm2.min_ease_factor, cfg.sm2.max_ease_factor},
      interval : {1, 3, 7, 14, 15, 30},
      repetitions : {0, 2, 3, 5, 10, 100},
      due_date : {0},
      algorithm_data :
          IF name = AnkiAlgorithmName
          THEN {EmptyData, AnkiNewCardData}
          ELSE {EmptyData} \cup
               {[ algorithm_name |-> LeitnerAlgorithmName,
                  leitner_box |-> b, success_count |-> 0,
                  failure_count |-> 0 ] : b \in 1..cfg.leitner.box_count} ]

\* newAlgorithm.migrateCard(cardData, oldAlgorithmSettings.type), to Leitner
MigrateToLeitner ==
    /\ algorithm = AnkiAlgorithmName
    /\ pc \in {"idle", "migrated"}
    /\ card' = LeitnerMigrateCard(config.leitner, card, algorithm, currentTime)
    /\ algorithm' = LeitnerAlgorithmName
    /\ pc' = IF pc = "idle" THEN "migrated" ELSE "migrated back"
    /\ UNCHANGED <<config, response, currentTime, result, reviewLog,
                   sessionVars, factoryVars, queueVars>>

\* newAlgorithm.migrateCard(cardData, oldAlgorithmSettings.type), to SM-2
MigrateToSM2 ==
    /\ algorithm = LeitnerAlgorithmName
    /\ pc \in {"idle", "migrated"}
    /\ card' = AnkiMigrateCard(config.sm2, card, algorithm, currentTime)
    /\ algorithm' = AnkiAlgorithmName
    /\ pc' = IF pc = "idle" THEN "migrated" ELSE "migrated back"
    /\ UNCHANGED <<config, response, currentTime, result, reviewLog,
                   sessionVars, factoryVars, queueVars>>

InitMigration ==
    /\ algorithm \in {AnkiAlgorithmName, LeitnerAlgorithmName}
    /\ config \in [sm2 : MigrationAnkiConfigs, leitner : LeitnerConfigs]
    /\ card \in MigrationCards(algorithm, config)
    /\ response = "none"
    /\ currentTime \in Times
    /\ result = NoResult
    /\ pc = "idle"
    /\ reviewLog = EmptyLog
    /\ NoSession
    /\ NoFactory
    /\ NoQueue

NextMigration == MigrateToLeitner \/ MigrateToSM2

SpecMigration == InitMigration /\ [][NextMigration]_vars

----------------------------------------------------------------------------
(* QueueManager.  A FlashcardRow keeps the fields the queue manager reads. *)
(* Minutes of study time are counted in hundredths where the code uses     *)
(* 0.5, 0.25 and 0.33; below 25 learning cards the sums are exact.         *)

MaxQueueCards == 5

FlashcardRow(id, status, interval, due, created) ==
    [ id |-> id, status |-> status, interval |-> interval, due_date |-> due,
      created_at |-> created ]

\* the cards of the queue manager tests (mockCards), one review card due
\* beyond the look-ahead and two more learning cards
QueueCardPool ==
    << FlashcardRow("new-1", "new", 1, Now, Now - 2 * MinutesPerDay),
       FlashcardRow("review-2", "review", 15, Now + 120, Now),
       FlashcardRow("learning-1", "learning", 10, Now + 10, Now),
       FlashcardRow("new-2", "new", 1, Now, Now - MinutesPerDay),
       FlashcardRow("learning-2", "learning", 1, Now - 5, Now),
       FlashcardRow("review-1", "review", 7, Now - 60, Now),
       FlashcardRow("suspended-1", "suspended", 1, Now, Now),
       FlashcardRow("review-3", "review", 3, Now + 2000, Now),
       FlashcardRow("learning-3", "learning", 1, Now - 10, Now),
       FlashcardRow("learning-4", "learning", 10, Now, Now) >>

\* the collections handed to generateDailyQueue
QueueCollections ==
    LET Pick(chosen) ==
            LET F[i \in 0..Len(QueueCardPool)] ==
                    IF i = 0 THEN <<>>
                    ELSE IF i \in chosen THEN Append(F[i - 1], QueueCardPool[i])
                    ELSE F[i - 1]
            IN  F[Len(QueueCardPool)]
    IN  {Pick(chosen) : chosen \in {c \in SUBSET (1..Len(QueueCardPool)) :
                                       Cardinality(c) <= MaxQueueCards}}

\* QueueConfig values: the test configuration and its variations
QueueConfigs ==
    [ maxNewCardsPerDay : {1, 5},
      maxReviewCardsPerDay : {1, 10},
      learningAheadLimit : {0, 5, 20},
      reviewAheadLimit : {0, 1},
      newCardOrder : {"created", "random", "due"},
      reviewCardOrder : {"due", "random", "interval"} ]

\* session time budgets, in minutes
SessionTimes == {0, 1, 2, 60}

\* cutoffTime.setHours(23, 59, 59, 999)
EndOfDay(t) == (t \div MinutesPerDay) * MinutesPerDay + (MinutesPerDay - 1)

\* the cutoffTime of filterDueCards; a limit left out is Undefined
cutoffTime(t, aheadLimitMinutes) ==
    IF aheadLimitMinutes # Undefined /\ aheadLimitMinutes # 0
    THEN t + aheadLimitMinutes
    ELSE EndOfDay(t)

\* filterDueCards(cards, currentTime, status, aheadLimitMinutes)
filterDueCards(cards, t, aheadLimitMinutes) ==
    LET F[i \in 0..Len(cards)] ==
            IF i = 0 THEN <<>>
            ELSE IF cards[i].due_date <= cutoffTime(t, aheadLimitMinutes)
            THEN Append(F[i - 1], cards[i])
            ELSE F[i - 1]
    IN  F[Len(cards)]

\* the field sortCards compares for an order
SortKey(order) ==
    CASE order = "created" -> "created_at"
      [] order = "due" -> "due_date"
      [] order = "interval" -> "interval"

\* [...cards].sort((a, b) => a[key] - b[key]), a stable sort
SortByKey(cards, key) ==
    LET InsertCard(sorted, c) ==
            LET k == Cardinality({i \in 1..Len(sorted) :
                                     sorted[i][key] <= c[key]})
            IN  SubSeq(sorted, 1, k) \o <<c>>
                    \o SubSeq(sorted, k + 1, Len(sorted))
        F[i \in 0..Len(cards)] ==
            IF i = 0 THEN <<>> ELSE InsertCard(F[i - 1], cards[i])
    IN  F[Len(cards)]

\* every arrangement of the cards
Arrangements(cards) ==
    LET n == Len(cards) IN
    { [i \in 1..n |-> cards[f[i]]] :
        f \in {g \in [1..n -> 1..n] :
                  \A i, j \in 1..n : i # j => g[i] # g[j]} }

\* the results sortCards(cards, order) can give: the 'random' order sorts
\* with a comparator that answers at random
sortCards(cards, order) ==
    IF order = "random" THEN Arrangements(cards)
    ELSE IF order \in {"created", "due", "interval"}
    THEN {SortByKey(cards, SortKey(order))}
    ELSE {cards}

\* Math.ceil(n / d) for n >= 0
CeilDiv(n, d) == (n + d - 1) \div d

\* estimateStudyTime(newCards, learningCards, reviewCards)
estimateStudyTime(newCards, learningCards, reviewCards) ==
    CeilDiv(Len(newCards) * 30 + Len(learningCards) * 20
                + Len(reviewCards) * 15, 60)

\* a variant that caps the learning cards like the review cards
LearningLimitCapped(sortedLearningCards, cfg) ==
    Slice(sortedLearningCards, cfg.maxReviewCardsPerDay)

\* queueLearningCards: learning cards have no daily limit
LearningLimit(sortedLearningCards, cfg) == sortedLearningCards

\* a variant that leaves the learning cards out of the count
totalCardsNoLearning(n, l, r) == Len(n) + Len(r)

\* totalCards of generateDailyQueue
totalCards(n, l, r) == Len(n) + Len(l) + Len(r)

\* the queues generateDailyQueue(cards, config, currentTime) can return
generateDailyQueue(cards, cfg, t) ==
    LET newCards == FilterStatus(cards, "new")
        learningCards == FilterStatus(cards, "learning")
        reviewCards == FilterStatus(cards, "review")
        dueNewCards == filterDueCards(newCards, t, Undefined)
        dueLearningCards ==
            filterDueCards(learningCards, t, cfg.learningAheadLimit)
        dueReviewCards ==
            filterDueCards(reviewCards, t, cfg.reviewAheadLimit * 24 * 60)
    IN
    { LET queueNewCards == Slice(sortedNewCards, cfg.maxNewCardsPerDay)
          queueReviewCards ==
              Slice(sortedReviewCards, cfg.maxReviewCardsPerDay)
          queueLearningCards == LearningLimit(sortedLearningCards, cfg)
      IN  [ newCards |-> queueNewCards,
            learningCards |-> queueLearningCards,
            reviewCards |-> queueReviewCards,
            totalCards |-> totalCards(queueNewCards, queueLearningCards,
                                      queueReviewCards),
            estimatedStudyTime |->
                estimateStudyTime(queueNewCards, queueLearningCards,
                                  queueReviewCards) ] :
        sortedNewCards \in sortCards(dueNewCards, cfg.newCardOrder),
        sortedLearningCards \in sortCards(dueLearningCards, "due"),
        sortedReviewCards \in sortCards(dueReviewCards, cfg.reviewCardOrder) }

\* the count a while loop of optimizeQueue ends with: it takes one off as
\* long as the time, in hundredths of a minute, is over the budget
RECURSIVE Trim(_, _, _, _)
Trim(count, otherTime, timePerCard, budget) ==
    IF otherTime + count * timePerCard > budget /\ count > 0
    THEN Trim(count - 1, otherTime, timePerCard, budget)
    ELSE count

\* a variant of the first loop that keeps every new card
newCardsToKeepAll(queue, maxSessionTime) == Len(queue.newCards)

\* newCardsToKeep after the first loop of optimizeQueue
newCardsToKeep(queue, maxSessionTime) ==
    Trim(Len(queue.newCards),
         Len(queue.learningCards) * 33 + Len(queue.reviewCards) * 25,
         50, maxSessionTime * 100)

\* a variant of the second loop that keeps every review card
reviewCardsToKeepAll(queue, newKept, maxSessionTime) ==
    Len(queue.reviewCards)

\* reviewCardsToKeep after the second loop of optimizeQueue
reviewCardsToKeep(queue, newKept, maxSessionTime) ==
    Trim(Len(queue.reviewCards),
         Len(queue.learningCards) * 33 + newKept * 50,
         25, maxSessionTime * 100)

\* optimizeQueue(queue, maxSessionTime)
optimizeQueue(queue, maxSessionTime) ==
    IF queue.estimatedStudyTime <= maxSessionTime THEN queue
    ELSE
    LET learningTime == Len(queue.learningCards) * 33
        newKept == newCardsToKeep(queue, maxSessionTime)
        reviewKept == reviewCardsToKeep(queue, newKept, maxSessionTime)
    IN  [ queue EXCEPT
            !.newCards = Slice(queue.newCards, newKept),
            !.reviewCards = Slice(queue.reviewCards, reviewKept),
            !.totalCards = Len(queue.learningCards) + newKept + reviewKept,
            !.estimatedStudyTime =
                CeilDiv(learningTime + newKept * 50 + reviewKept * 25, 100) ]

\* the manager keeps no state between calls: one generated queue and one
\* optimisation of it cover every call
GenerateDailyQueue ==
    /\ NoQueue
    /\ \E cards \in QueueCollections, cfg \in QueueConfigs :
          \E queue \in generateDailyQueue(cards, cfg, currentTime) :
              /\ dailyQueue' = queue
              /\ lastOp' = Op("generateDailyQueue",
                              [cards |-> cards, config |-> cfg], FALSE, queue)
    /\ UNCHANGED <<callFrame, algorithms>>

OptimizeQueue ==
    /\ lastOp.op = "generateDailyQueue"
    /\ \E maxSessionTime \in SessionTimes :
          lastOp' = Op("optimizeQueue",
                       [queue |-> dailyQueue, maxSessionTime |-> maxSessionTime],
                       FALSE, optimizeQueue(dailyQueue, maxSessionTime))
    /\ UNCHANGED <<callFrame, algorithms, dailyQueue>>

\* new QueueManager()
InitQueue ==
    /\ algorithm = "none"
    /\ config = EmptyData
    /\ card = NoCard
    /\ response = "none"
    /\ currentTime = Now
    /\ result = NoResult
    /\ pc = "idle"
    /\ reviewLog = EmptyLog
    /\ NoSession
    /\ NoFactory
    /\ NoQueue

NextQueue == GenerateDailyQueue \/ OptimizeQueue

SpecQueue == InitQueue /\ [][NextQueue]_vars

----------------------------------------------------------------------------
(* Validation: a caller holding a card that may lack fields.  A missing    *)
(* string field is "", a missing number or date is Undefined.              *)

\* well-formed cards and cards lacking any combination of fields
ValidationCards ==
    [ id : {"card-1", ""},
      status : CardStatus \cup {""},
      ease_factor : {250, Undefined},
      interval : {1, Undefined},
      repetitions : {0, Undefined},
      due_date : {0, Undefined},
      algorithm_data : {EmptyData} ]

\* strategy.validateCard(card), called by a caller directly
ValidateCard ==
    /\ pc = "idle"
    /\ result' = [valid |-> validateCard(card)]
    /\ pc' = "validated"
    /\ UNCHANGED <<algorithm, config, card, response, currentTime, reviewLog>>
    /\ UNCHANGED <<sessionVars, factoryVars, queueVars>>

InitValidation ==
    /\ \/ algorithm = AnkiAlgorithmName /\ config \in AnkiConfigs
       \/ algorithm = LeitnerAlgorithmName /\ config \in LeitnerConfigs
    /\ card \in ValidationCards
    /\ response = "none"
    /\ currentTime = 0
    /\ result = NoResult
    /\ pc = "idle"
    /\ reviewLog = EmptyLog
    /\ NoSession
    /\ NoFactory
    /\ NoQueue

NextValidation == AnkiReview \/ LeitnerReview \/ ValidateCard

SpecValidation == InitValidation /\ [][NextValidation]_vars

----------------------------------------------------------------------------
(* Leitner progress: an item in box 1, its box recorded in algorithm_data, *)
(* is answered 'good' at every review and every update is stored.          *)

\* calculateNextReview(card, 'good', currentTime)
LeitnerGoodReview == LeitnerReview /\ response' = "good"

InitLeitnerProgress ==
    /\ InitLeitner
    /\ "leitner_box" \in DOMAIN card.algorithm_data
    /\ card.algorithm_data.leitner_box = 1

NextLeitnerProgress == LeitnerGoodReview \/ FeedBackAll

SpecLeitnerProgress == InitLeitnerProgress /\ [][NextLeitnerProgress]_vars

----------------------------------------------------------------------------
(* The items an SM-2 strategy with the default configuration reaches from  *)
(* a new item, as initializeNewCard creates it.                            *)

InitSM2FromNew ==
    /\ InitSM2
    /\ config = DEFAULT_ANKI_CONFIG
    /\ card.status = "new"
    /\ card.ease_factor = 250
    /\ card.interval = 1
    /\ card.repetitions = 0

SpecSM2FromNew == InitSM2FromNew /\ [][NextSM2]_vars

----------------------------------------------------------------------------
(* Properties of the SM-2 strategy, checked under SpecSM2 *)

AnkiReturned == algorithm = AnkiAlgorithmName /\ pc = "returned"

C2_IntervalPositive ==
    (AnkiReturned /\ config = DEFAULT_ANKI_CONFIG) =>
        /\ result.interval # Undefined
        /\ result.interval > 0
        /\ result.repetitions >= 0

\* C3: a 'new' item answered 'easy' becomes 'review' with interval =
\* easy_interval, repetitions = 1 and graduated_today; answered 'again',
\* 'hard' or 'good' it becomes 'learning' with interval = first initial step,
\* repetitions unchanged and graduated_today = false.
C3_NewCard ==
    (AnkiReturned /\ card.status = "new") =>
        IF response = "easy"
        THEN /\ result.status = "review"
             /\ result.interval = config.learning_steps.easy_interval
             /\ result.repetitions = 1
             /\ result.graduated_today = TRUE
        ELSE /\ result.status = "learning"
             /\ result.interval = Head(config.learning_steps.initial)
             /\ result.repetitions = card.repetitions
             /\ result.graduated_today = FALSE

C3_Witness ==
    /\ AnkiReturned
    /\ card.status = "new"
    /\ card.repetitions # 1
    /\ response = "easy"
    /\ result.status = "review"

\* C4: a 'learning' item with repetitions = 0: 'good' on a non-final initial
\* step moves the interval to the next initial step and stays 'learning';
\* 'good' on the final initial step graduates to 'review' with interval =
\* graduating_interval, repetitions = 1 and graduated_today; 'easy' on any
\* step graduates to 'review' with interval = easy_interval and
\* graduated_today.
C4_LearningCard ==
    (AnkiReturned /\ card.status = "learning" /\ card.repetitions = 0) =>
        LET initial == config.learning_steps.initial IN
        /\ response = "good" =>
              \A i \in 1..Len(initial) :
                  initial[i] = card.interval =>
                      IF i < Len(initial)
                      THEN /\ result.status = "learning"
                           /\ result.interval = initial[i + 1]
                      ELSE /\ result.status = "review"
                           /\ result.interval =
                                  config.learning_steps.graduating_interval
                           /\ result.repetitions = 1
                           /\ result.graduated_today = TRUE
        /\ response = "easy" =>
              /\ result.status = "review"
              /\ result.interval = config.learning_steps.easy_interval
              /\ result.graduated_today = TRUE

\* 'good' on the final initial step
C4_Witness ==
    /\ AnkiReturned
    /\ card.status = "learning"
    /\ card.repetitions = 0
    /\ response = "good"
    /\ card.interval =
           config.learning_steps.initial[Len(config.learning_steps.initial)]
    /\ result.status = "review"

\* C5: a 'review' item answered 'again' becomes 'learning' with interval =
\* first relearning step, ease_factor = max(min_ease_factor, ease_factor -
\* 0.2), repetitions unchanged and graduated_today = false.
C5_Lapse ==
    (AnkiReturned /\ card.status = "review" /\ response = "again") =>
        /\ result.status = "learning"
        /\ result.interval = Head(config.learning_steps.relearning)
        /\ result.ease_factor =
               (IF card.ease_factor - 20 >= config.min_ease_factor
                THEN card.ease_factor - 20
                ELSE config.min_ease_factor)
        /\ result.repetitions = card.repetitions
        /\ result.graduated_today = FALSE

\* a lapse of an item that has been reviewed before
C5_Witness ==
    /\ AnkiReturned
    /\ card.status = "review"
    /\ response = "again"
    /\ card.repetitions >= 2
    /\ result.status = "learning"
    /\ result.ease_factor = card.ease_factor - 20

C7_NewEasyDefault ==
    (/\ AnkiReturned
     /\ config = DEFAULT_ANKI_CONFIG
     /\ card.status = "new"
     /\ card.ease_factor = 250
     /\ response = "easy") =>
        /\ result.status = "review"
        /\ result.interval = 4
        /\ result.repetitions = 1
        /\ result.graduated_today = TRUE
        /\ result.ease_factor = 265

----------------------------------------------------------------------------
(* Properties of the Leitner strategy, checked under SpecLeitner *)

LeitnerReturned == algorithm = LeitnerAlgorithmName /\ pc = "returned"

\* the box an item in box b moves to, as the box rules state it
BoxAfter(b, r) ==
    CASE r = "good"  -> IF b + 1 <= config.box_count THEN b + 1 ELSE config.box_count
      [] r = "easy"  -> IF b + 2 <= config.box_count THEN b + 2 ELSE config.box_count
      [] r = "hard"  -> IF b - 1 >= 1 THEN b - 1 ELSE 1
      [] r = "again" -> 1

\* C9: for an item in box b the update records in algorithm_data.leitner_box
\* the box min(b+1, N) for 'good', min(b+2, N) for 'easy', max(b-1, 1) for
\* 'hard' and 1 for 'again', and its interval is the configured interval of
\* the recorded box, also when the item's algorithm_data already carries a
\* leitner_box.
C9_RecordedBox ==
    LeitnerReturned =>
        LET b == getCurrentBox(config, card) IN
        /\ result.algorithm_data.leitner_box = BoxAfter(b, response)
        /\ result.interval =
               config.box_intervals[result.algorithm_data.leitner_box]

\* C10: the status of every update derives from the resulting box (box 1 is
\* 'new', a box below graduated_box is 'learning', a box at or above
\* graduated_box is 'review'), and graduated_today is true exactly when the
\* box before the response is below graduated_box and the box after it is at
\* or above graduated_box.
C10_StatusFromBox ==
    LeitnerReturned =>
        LET before == getCurrentBox(config, card)
            after == BoxAfter(before, response)
        IN  /\ after = 1 => result.status = "new"
            /\ (after # 1 /\ after < config.graduated_box) =>
                   result.status = "learning"
            /\ (after # 1 /\ after >= config.graduated_box) =>
                   result.status = "review"
            /\ result.graduated_today <=>
                   (before < config.graduated_box /\ after >= config.graduated_box)

\* a response that crosses the graduation threshold
C10_Witness ==
    /\ LeitnerReturned
    /\ getCurrentBox(config, card) = config.graduated_box - 1
    /\ response = "good"
    /\ result.status = "review"
    /\ result.graduated_today = TRUE

\* C11: when each update's algorithm_data is fed back into the item, after any
\* sequence of responses the returned success_count is the number of
\* 'good'/'easy' responses so far and failure_count the number of 'again'
\* responses so far.
C11_CountersAccumulate ==
    (LeitnerReturned /\ reviewLog.fedBack) =>
        /\ result.algorithm_data.success_count = reviewLog.success
        /\ result.algorithm_data.failure_count = reviewLog.failure

----------------------------------------------------------------------------
(* Properties of the LearningSession, checked under SpecSession *)

\* the last call was a processResponse that returned
Responded == lastOp.op = "processResponse" /\ ~lastOp.threw

\* the card that call answered
AnsweredCard == CardAt(snapshot.queue, snapshot.index)

\* the last call was a processResponse('again') on a review card
Lapsed ==
    /\ Responded
    /\ AnsweredCard.status = "review"
    /\ lastOp.args.response = "again"

\* queue with c spliced in at 0-based index k
InsertAt(queue, k, c) ==
    SubSeq(queue, 1, k) \o <<c>> \o SubSeq(queue, k + 1, Len(queue))

\* C12: after a processResponse on a review card that lapses, the queue is
\* the old queue with a copy of the card, carrying the status, ease factor,
\* interval, repetitions and due date of the update, inserted at an index
\* strictly greater than the cursor before it advanced; totalCards is one
\* more; and the copy lies at or after the new cursor, so the session is not
\* completed before the copy has been presented.
C12_LapseRequeued ==
    Lapsed =>
        LET copy == RequeuedCard(AnsweredCard, lastOp.returned.updateResult) IN
        /\ copy.status = "learning"
        /\ \E k \in (snapshot.index + 1)..Len(snapshot.queue) :
              /\ sessionQueue = InsertAt(snapshot.queue, k, copy)
              /\ k >= currentCardIndex
        /\ stats.totalCards = snapshot.stats.totalCards + 1
        /\ ~isCompleted

C12_Witness ==
    /\ Lapsed
    /\ Len(sessionQueue) = Len(snapshot.queue) + 1
    /\ snapshot.index > 0

\* the per-status counter of st that a response to a card of that status moves
StatusCounter(st, status) ==
    CASE status = "new" -> st.newCardsLearned
      [] status = "learning" -> st.learningCardsCompleted
      [] status = "review" -> st.reviewCardsCompleted

\* the last two calls were a processResponse that returned and undoLastReview
UndoneAtOnce == lastOp.op = "undoLastReview" /\ snapshot # NoSnapshot

\* C13: undoLastReview called right after a processResponse on the card at
\* cursor c returns true, puts the cursor back at c, removes the history
\* entry, and restores completedCards and the counter of the card's status.
C13_UndoRestores ==
    UndoneAtOnce =>
        /\ lastOp.returned = TRUE
        /\ currentCardIndex = snapshot.index
        /\ completedCards = snapshot.history
        /\ stats.completedCards = snapshot.stats.completedCards
        /\ StatusCounter(stats, AnsweredCard.status)
              = StatusCounter(snapshot.stats, AnsweredCard.status)

C13_Witness ==
    /\ UndoneAtOnce
    /\ lastOp.returned = TRUE
    /\ snapshot.index > 0
    /\ AnsweredCard.status = "review"
    /\ snapshot.stats.completedCards > 0

\* C14: undoLastReview called with an empty history or with the cursor at 0
\* returns false, raises nothing, and leaves the queue, the cursor, the
\* history and the statistics unchanged.
C14_UndoNothing ==
    [][ ( /\ lastOp'.op = "undoLastReview"
          /\ (Len(completedCards) = 0 \/ currentCardIndex = 0) )
        => /\ lastOp'.returned = FALSE
           /\ ~lastOp'.threw
           /\ UNCHANGED <<sessionQueue, currentCardIndex, completedCards,
                          stats>> ]_vars

C14_Witness ==
    /\ lastOp.op = "undoLastReview"
    /\ lastOp.returned = FALSE
    /\ Len(completedCards) = 0
    /\ currentCardIndex > 0
    /\ stats.totalCards > currentCardIndex

\* number of queue entries carrying the id
Copies(queue, id) == Cardinality({i \in 1..Len(queue) : queue[i].id = id})

\* C15: when every presented card is answered (no skip, no undo) under SM-2,
\* the session reaches the completed state; every card of the initial queue
\* is inserted again at most once, and the queue never grows beyond its
\* initial length plus the number of review cards it started with.
C15_AnsweringCompletes ==
    /\ [](~Constructed =>
            /\ \A i \in 1..Len(initialQueue) :
                  Copies(sessionQueue, initialQueue[i].id) <= 2
            /\ Len(sessionQueue) <=
                  Len(initialQueue) + Len(FilterStatus(initialQueue, "review")))
    /\ (lastOp.op = "initializeSession") ~> (~Constructed /\ isCompleted)

C15_Witness ==
    /\ Responded
    /\ isCompleted
    /\ Len(FilterStatus(initialQueue, "review")) = 2
    /\ Len(sessionQueue) = Len(initialQueue) + 2
    /\ Len(completedCards) = Len(sessionQueue)

\* the last call was initializeSession(lastOp.args)
Initialized == lastOp.op = "initializeSession"

InQueue(c) == \E i \in 1..Len(sessionQueue) : sessionQueue[i] = c

\* C16: the queue initializeSession builds holds every learning card of the
\* collection whose due date is at most learningAheadLimit minutes after the
\* current time, also one that is not due yet.
C16_LearningAhead ==
    Initialized =>
        \A i \in 1..Len(lastOp.args) :
            LET c == lastOp.args[i] IN
            ( /\ c.status = "learning"
              /\ c.due_date <= currentTime + sessionConfig.learningAheadLimit )
            => InQueue(c)

\* number of cards of the status in the sequence
CountStatus(cards, status) == Len(FilterStatus(cards, status))

\* C17: the queue initializeSession builds holds no suspended card, at most
\* maxNewCards new cards and at most maxReviewCards review cards; totalCards
\* is the queue length and the cursor is 0.
C17_InitialQueueLimits ==
    Initialized =>
        /\ CountStatus(sessionQueue, "suspended") = 0
        /\ CountStatus(sessionQueue, "new") <= sessionConfig.maxNewCards
        /\ CountStatus(sessionQueue, "review") <= sessionConfig.maxReviewCards
        /\ stats.totalCards = Len(sessionQueue)
        /\ currentCardIndex = 0

C17_Witness ==
    /\ Initialized
    /\ CountStatus(lastOp.args, "suspended") = 1
    /\ CountStatus(lastOp.args, "new") > sessionConfig.maxNewCards
    /\ CountStatus(sessionQueue, "new") = sessionConfig.maxNewCards
    /\ stats.totalCards = 1

\* the cards are in the order new, learning, review, suspended, and cards of
\* one status are in ascending order of due date
InPriorityOrder(cards) ==
    \A i, j \in 1..Len(cards) :
        i < j =>
            \/ statusPriority(cards[i].status) < statusPriority(cards[j].status)
            \/ /\ cards[i].status = cards[j].status
               /\ cards[i].due_date <= cards[j].due_date

\* a and b hold the same cards, each as many times
IsPermutation(a, b) ==
    /\ Len(a) = Len(b)
    /\ \A i \in 1..Len(a) :
          Cardinality({k \in 1..Len(a) : a[k] = a[i]})
              = Cardinality({k \in 1..Len(b) : b[k] = a[i]})

C19_CopyNotNext ==
    (Lapsed /\ snapshot.index + 1 < Len(snapshot.queue)) =>
        lastOp.returned.nextCard
            # RequeuedCard(AnsweredCard, lastOp.returned.updateResult)

C21_AccuracyFromHistory ==
    (~Constructed /\ stats.completedCards > 0) =>
        /\ stats.accuracyRate =
              Fraction(100 * CorrectResponses(completedCards),
                       stats.completedCards)
        /\ lastOp.op = "endSession" =>
              /\ lastOp.returned.cards_studied = stats.completedCards
              /\ lastOp.returned.correct_answers
                    = CorrectResponses(completedCards)

\* C22: initializeSession on an empty collection, or on one whose cards are
\* all suspended, raises nothing and leaves a completed session:
\* getCurrentCard returns null, isCompleted is true and totalCards is 0.
C22_NothingToStudy ==
    ( /\ Initialized
      /\ \A i \in 1..Len(lastOp.args) : lastOp.args[i].status = "suspended" )
    => /\ ~lastOp.threw
       /\ getCurrentCard = NoCard
       /\ isCompleted
       /\ stats.totalCards = 0

C22_Witness ==
    /\ Initialized
    /\ Len(lastOp.args) = 1
    /\ lastOp.args[1].status = "suspended"
    /\ isCompleted

----------------------------------------------------------------------------
(* Properties of the AlgorithmFactory, checked under SpecFactory *)

\* C23: createFromPersistedData never throws and returns a strategy for
\* every algorithm name and version; a name that is not registered gives the
\* SM-2 strategy.
C23_PersistedNeverThrows ==
    lastOp.op = "createFromPersistedData" =>
        /\ ~lastOp.threw
        /\ getAlgorithmByName(algorithms, lastOp.args.name) = "undefined"
              => lastOp.returned.name = AnkiAlgorithmName

\* the keys of the default configuration of the type that cfg leaves out
UndefinedKeys(type, cfg) ==
    (DOMAIN algorithms[type].defaultConfig) \ (DOMAIN cfg)

----------------------------------------------------------------------------
(* Properties of migrateCard, checked under SpecMigration *)

\* C25: an item that satisfies the item invariants, migrated to the other
\* strategy and back, has its ease factor within the bounds of the SM-2
\* configuration, an interval above 0 and repetitions of at least 0, and as a
\* Leitner item has its box within 1..box_count.
C25_RoundTripInvariants ==
    pc = "migrated back" =>
        /\ card.ease_factor >= config.sm2.min_ease_factor
        /\ card.ease_factor <= config.sm2.max_ease_factor
        /\ card.interval > 0
        /\ card.repetitions >= 0
        /\ algorithm = LeitnerAlgorithmName =>
              /\ card.algorithm_data.leitner_box >= 1
              /\ card.algorithm_data.leitner_box <= config.leitner.box_count

----------------------------------------------------------------------------
(* Properties of the QueueManager, checked under SpecQueue *)

Generated == lastOp.op = "generateDailyQueue"

\* the cards of a bucket, as a set
CardsOf(bucket) == {bucket[i] : i \in 1..Len(bucket)}

\* the learning cards handed in that pass the due filter of the call
DueLearning ==
    {c \in CardsOf(lastOp.args.cards) :
        /\ c.status = "learning"
        /\ c.due_date <= cutoffTime(currentTime,
                                    lastOp.args.config.learningAheadLimit)}

\* C26: generateDailyQueue returns at most maxNewCardsPerDay new cards and at
\* most maxReviewCardsPerDay review cards, and its learning bucket holds
\* every learning card that passes the learning due filter, each once,
\* however many there are.
C26_DailyLimits ==
    Generated =>
        LET queue == lastOp.returned
            cfg == lastOp.args.config
        IN  /\ Len(queue.newCards) <= cfg.maxNewCardsPerDay
            /\ Len(queue.reviewCards) <= cfg.maxReviewCardsPerDay
            /\ CardsOf(queue.learningCards) = DueLearning
            /\ Len(queue.learningCards) = Cardinality(DueLearning)

\* a call whose new cards are cut to the limit while the learning bucket
\* holds more cards than either limit
C26_Witness ==
    /\ Generated
    /\ Len(FilterStatus(lastOp.args.cards, "new"))
           > lastOp.args.config.maxNewCardsPerDay
    /\ Len(lastOp.returned.newCards) = lastOp.args.config.maxNewCardsPerDay
    /\ Len(lastOp.returned.learningCards)
           > lastOp.args.config.maxNewCardsPerDay
    /\ Len(lastOp.returned.learningCards)
           > lastOp.args.config.maxReviewCardsPerDay

\* the cards of a status handed in that are due at or before a time
DueBy(status, time) ==
    {c \in CardsOf(lastOp.args.cards) :
        c.status = status /\ c.due_date <= time}

\* C27: after generateDailyQueue a learning card is in the learning bucket
\* if and only if it is due at or before now + learningAheadLimit minutes,
\* and a review card passes the review filter (it is in the review bucket,
\* or the bucket is full) if and only if it is due at or before
\* now + reviewAheadLimit days, for every limit from 0 up.
C27_DueFilter ==
    Generated =>
        LET queue == lastOp.returned
            cfg == lastOp.args.config
            dueReview == DueBy("review", currentTime
                                   + cfg.reviewAheadLimit * MinutesPerDay)
        IN  /\ CardsOf(queue.learningCards)
                   = DueBy("learning", currentTime + cfg.learningAheadLimit)
            /\ CardsOf(queue.reviewCards) \subseteq dueReview
            /\ Len(queue.reviewCards)
                   = Min(Cardinality(dueReview), cfg.maxReviewCardsPerDay)

\* the same statement for the calls whose two limits are above 0
DueFilterPositiveLimits ==
    (/\ Generated
     /\ lastOp.args.config.learningAheadLimit > 0
     /\ lastOp.args.config.reviewAheadLimit > 0) => C27_DueFilter

\* the cards of a bucket all come from the call's collection with one status
BucketOf(bucket, status) ==
    \A i \in 1..Len(bucket) :
        /\ bucket[i].status = status
        /\ bucket[i] \in CardsOf(lastOp.args.cards)

\* C28: the queue generateDailyQueue returns holds no suspended card, each
\* bucket holds only cards of its own status taken from the collection
\* handed in, and totalCards is the sum of the three bucket lengths, which
\* is 0 for an empty or fully suspended collection.
C28_QueuePartition ==
    Generated =>
        LET queue == lastOp.returned
            cards == lastOp.args.cards
        IN  /\ BucketOf(queue.newCards, "new")
            /\ BucketOf(queue.learningCards, "learning")
            /\ BucketOf(queue.reviewCards, "review")
            /\ queue.totalCards = Len(queue.newCards)
                   + Len(queue.learningCards) + Len(queue.reviewCards)
            /\ (\A i \in 1..Len(cards) : cards[i].status = "suspended")
                   => queue.totalCards = 0

\* a collection with a suspended card and a card for each bucket
C28_Witness ==
    /\ Generated
    /\ \E i \in 1..Len(lastOp.args.cards) :
           lastOp.args.cards[i].status = "suspended"
    /\ Len(lastOp.returned.newCards) = 1
    /\ Len(lastOp.returned.learningCards) = 1
    /\ Len(lastOp.returned.reviewCards) = 1
    /\ lastOp.returned.totalCards = 3

Optimized == lastOp.op = "optimizeQueue"

IsPrefix(short, long) ==
    /\ Len(short) <= Len(long)
    /\ short = SubSeq(long, 1, Len(short))

\* C29: optimizeQueue(queue, maxMinutes) returns the learning bucket as it
\* was, a prefix of the new bucket and a prefix of the review bucket, drops
\* a review card only when it keeps no new card, and returns the queue
\* unchanged when its estimated study time is within maxMinutes.
C29_OptimizeFrame ==
    Optimized =>
        LET queue == lastOp.args.queue
            optimized == lastOp.returned
        IN  /\ optimized.learningCards = queue.learningCards
            /\ IsPrefix(optimized.newCards, queue.newCards)
            /\ IsPrefix(optimized.reviewCards, queue.reviewCards)
            /\ Len(optimized.reviewCards) < Len(queue.reviewCards)
                   => optimized.newCards = <<>>
            /\ queue.estimatedStudyTime <= lastOp.args.maxSessionTime
                   => optimized = queue

\* a queue with cards in every bucket that loses its new card and a review
\* card
C29_Witness ==
    /\ Optimized
    /\ lastOp.args.queue.learningCards # <<>>
    /\ lastOp.args.queue.newCards # <<>>
    /\ lastOp.returned.newCards = <<>>
    /\ Len(lastOp.returned.reviewCards) < Len(lastOp.args.queue.reviewCards)
    /\ lastOp.returned.learningCards = lastOp.args.queue.learningCards

\* C30 as stated: for every queue and every budget the queue optimizeQueue
\* returns has an estimatedStudyTime of at most maxMinutes and a totalCards
\* of at most the original totalCards.
C30_FitsBudget ==
    Optimized =>
        /\ lastOp.returned.estimatedStudyTime <= lastOp.args.maxSessionTime
        /\ lastOp.returned.totalCards <= lastOp.args.queue.totalCards

\* C30 amended: for every queue generateDailyQueue returns and every
\* whole-number budget from 0 up, the queue optimizeQueue returns has an
\* estimatedStudyTime of at most maxMinutes, unless the learning bucket
\* alone takes longer: then its new and review buckets are empty and its
\* estimatedStudyTime is that of the learning bucket alone,
\* ceil(0.33 * number of learning cards); its totalCards is at most the
\* original totalCards.
C30_FitsBudgetOrLearningOnly ==
    Optimized =>
        LET queue == lastOp.args.queue
            optimized == lastOp.returned
        IN  /\ \/ optimized.estimatedStudyTime <= lastOp.args.maxSessionTime
               \/ /\ optimized.newCards = <<>>
                  /\ optimized.reviewCards = <<>>
                  /\ optimized.estimatedStudyTime
                         = CeilDiv(Len(queue.learningCards) * 33, 100)
            /\ optimized.totalCards <= queue.totalCards

\* a queue whose learning cards alone exceed a budget above 0, and which
\* loses the card of another bucket
C30_Witness ==
    /\ Optimized
    /\ lastOp.args.maxSessionTime > 0
    /\ lastOp.returned.totalCards < lastOp.args.queue.totalCards
    /\ lastOp.returned.estimatedStudyTime > lastOp.args.maxSessionTime

----------------------------------------------------------------------------
(* Further properties of the SM-2 strategy, checked under SpecSM2 *)

\* C31: calculateNextReview on a suspended item changes nothing: for every
\* response the update has the item's own status, ease_factor, interval,
\* repetitions and due date, and graduated_today = false.
C31_SuspendedUnchanged ==
    (AnkiReturned /\ card.status = "suspended") =>
        /\ result.status = "suspended"
        /\ result.ease_factor = card.ease_factor
        /\ result.interval = card.interval
        /\ result.repetitions = card.repetitions
        /\ result.due_date = card.due_date
        /\ result.graduated_today = FALSE

\* the same statement without the due date
SuspendedFieldsUnchanged ==
    (AnkiReturned /\ card.status = "suspended") =>
        /\ result.status = "suspended"
        /\ result.ease_factor = card.ease_factor
        /\ result.interval = card.interval
        /\ result.repetitions = card.repetitions
        /\ result.graduated_today = FALSE

----------------------------------------------------------------------------
(* Properties of validation, checked under SpecValidation *)

\* a card lacking its id, status or due date, or a numeric field
StructurallyInvalid(c) ==
    \/ c.id = ""
    \/ c.status = ""
    \/ c.due_date = Undefined
    \/ c.ease_factor = Undefined
    \/ c.interval = Undefined
    \/ c.repetitions = Undefined

\* C32: for both strategies calculateNextReview on a structurally invalid
\* item throws 'Invalid card data' and returns no update, it returns an
\* update for every other item, and validateCard returns false for exactly
\* the structurally invalid items.
C32_InvalidCardRejected ==
    /\ pc = "thrown" => StructurallyInvalid(card) /\ result = NoResult
    /\ pc = "returned" => ~StructurallyInvalid(card)
    /\ pc = "validated" => (result.valid <=> ~StructurallyInvalid(card))

\* calculateNextReview has thrown for a card that lacks only its due date
C32_Witness ==
    /\ pc = "thrown"
    /\ card.id # "" /\ card.status # ""
    /\ card.ease_factor # Undefined /\ card.interval # Undefined
    /\ card.repetitions # Undefined
    /\ card.due_date = Undefined

----------------------------------------------------------------------------
(* Properties of Leitner progress, checked under SpecLeitnerProgress *)

\* C33: an item that starts in box 1 with its box recorded in
\* algorithm_data and is answered 'good' at every review, every update fed
\* back into it, has reached box N and status 'review' by the update of
\* review N-1.
C33_GoodReachesLastBox ==
    (LeitnerReturned /\ reviewLog.success = config.box_count - 1) =>
        /\ result.algorithm_data.leitner_box = config.box_count
        /\ result.status = "review"

----------------------------------------------------------------------------
(* Further properties of the LearningSession, checked under SpecSession *)

\* C34: undoLastReview also undoes a re-insertion: after a processResponse
\* followed by undoLastReview the Session Queue and totalCards are what they
\* were before the response, so answering 'again' on a review item and
\* undoing it does not grow the queue.
C34_UndoRemovesCopy ==
    UndoneAtOnce =>
        /\ sessionQueue = snapshot.queue
        /\ stats.totalCards = snapshot.stats.totalCards

\* the number of history entries whose card had a status when answered
AnsweredWith(status) ==
    Cardinality({i \in 1..Len(completedCards) :
                    completedCards[i].status = status})

\* C35: in every state reached by processResponse, skipCurrentCard and
\* undoLastReview, also with a skip between a response and its undo,
\* completedCards = newCardsLearned + learningCardsCompleted
\* + reviewCardsCompleted, and each of the three counters is the number of
\* history entries whose card had that status when it was answered.
C35_CountersMatchHistory ==
    ~Constructed =>
        /\ stats.completedCards = stats.newCardsLearned
               + stats.learningCardsCompleted + stats.reviewCardsCompleted
        /\ stats.newCardsLearned = AnsweredWith("new")
        /\ stats.learningCardsCompleted = AnsweredWith("learning")
        /\ stats.reviewCardsCompleted = AnsweredWith("review")

\* the same statement for the states no undoLastReview has helped to reach
CountersMatchHistoryWithoutUndo ==
    undoCount = 0 => C35_CountersMatchHistory

\* totalCards, the cursor, completedCards and the history agree
SessionStructure ==
    /\ stats.totalCards = Len(sessionQueue)
    /\ 0 <= currentCardIndex
    /\ currentCardIndex <= Len(sessionQueue)
    /\ stats.completedCards = Len(completedCards)
    /\ Len(completedCards) <= currentCardIndex

\* C36: in every state reached after initializeSession by processResponse,
\* skipCurrentCard, undoLastReview and endSession, totalCards is the length
\* of the Session Queue, the cursor lies between 0 and that length, and
\* completedCards is the length of the history and at most the cursor;
\* processResponse with no item at the cursor throws and changes none of
\* these.
C36_SessionStructure ==
    /\ [](~Constructed => SessionStructure)
    /\ [][ (lastOp'.op = "processResponse" /\ getCurrentCard = NoCard)
           => /\ lastOp'.threw
              /\ UNCHANGED <<sessionQueue, currentCardIndex, completedCards,
                             stats>> ]_vars

\* processResponse has thrown at the end of a queue that holds a
\* re-inserted copy, with responses in the history
C36_Witness ==
    /\ lastOp.op = "processResponse"
    /\ lastOp.threw
    /\ currentCardIndex = Len(sessionQueue)
    /\ Len(sessionQueue) > Len(initialQueue)
    /\ completedCards # <<>>

----------------------------------------------------------------------------
(* Properties of the SM-2 learning steps, checked under SpecSM2 *)

StepsOf(list) == {list[i] : i \in 1..Len(list)}

\* C37: a learning item answered 'hard' stays 'learning' and its interval
\* is a step of the applicable list (the relearning list when
\* repetitions > 0, the initial list otherwise): the item's current step
\* when its interval is a step of that list, the first step of that list
\* otherwise.
C37_HardHoldsStep ==
    (AnkiReturned /\ card.status = "learning" /\ response = "hard") =>
        LET steps == LearningSteps(config, card) IN
        /\ result.status = "learning"
        /\ result.interval \in StepsOf(steps)
        /\ result.interval = IF card.interval \in StepsOf(steps)
                             THEN card.interval
                             ELSE steps[1]

\* the same statement for the items of the default configuration that are
\* not relearning
HardHoldsInitialStep ==
    (config = DEFAULT_ANKI_CONFIG /\ card.repetitions = 0)
        => C37_HardHoldsStep

\* C38: the algorithm_data of every update records the response just
\* processed (last_response is the response given, response_time the
\* timestamp given) and keeps the item's other keys, also when the item's
\* algorithm_data already holds last_response and response_time from the
\* previous update.
C38_RecordsResponse ==
    AnkiReturned =>
        /\ result.algorithm_data.last_response = response
        /\ result.algorithm_data.response_time = currentTime
        /\ \A k \in DOMAIN card.algorithm_data
                      \ {"last_response", "response_time"} :
               /\ k \in DOMAIN result.algorithm_data
               /\ result.algorithm_data[k] = card.algorithm_data[k]

\* the same statement for the items that carry no last_response yet
RecordsFirstResponse ==
    "last_response" \notin DOMAIN card.algorithm_data => C38_RecordsResponse

----------------------------------------------------------------------------
(* Properties of the session state machine, checked under SpecSession *)

\* C39: 'completed' is terminal: once the cursor has reached the end of the
\* queue after initializeSession, no processResponse, skipCurrentCard,
\* undoLastReview or endSession makes isCompleted false again.
C39_CompletedIsTerminal ==
    [][ (~Constructed /\ isCompleted) => isCompleted' ]_vars

\* the same statement for every operation but undoLastReview
CompletedUnlessUndone ==
    [][ (~Constructed /\ isCompleted /\ lastOp'.op # "undoLastReview")
            => isCompleted' ]_vars

----------------------------------------------------------------------------
(* Properties of the SM-2 review intervals, checked under SpecSM2FromNew *)

\* the interval calculateNextReview gives the caller's card for a response
IntervalAfter(r) ==
    AnkiCalculateNextReview(config, card, r, currentTime).interval

\* C40: for every review item reached from a new item by any sequence of
\* responses, a better answer never schedules a shorter interval:
\* interval after 'hard' <= interval after 'good' <= interval after 'easy'.
C40_BetterAnswerLongerInterval ==
    (pc = "idle" /\ card.status = "review" /\ validateCard(card)) =>
        /\ IntervalAfter("hard") <= IntervalAfter("good")
        /\ IntervalAfter("good") <= IntervalAfter("easy")

\* the same statement for the items past their second review
BetterAnswerLongerIntervalLater ==
    card.repetitions >= 2 => C40_BetterAnswerLongerInterval

====
